---- MODULE Spec2Model ----
(***************************************************************************)
(* The external plugin bridge of telegraf: the metric/error wire codec     *)
(* (package protocol), the receiver setup and plugin factory (package      *)
(* external), the gRPC server and stub of an input plugin and the          *)
(* host-side Wrapper (package input).                                      *)
(*                                                                         *)
(*   SpecCodec  the codec functions applied to bounded inputs              *)
(*   Spec       one plugin instance: creation, the five stub operations,   *)
(*              the plugin process and the host's metric sink              *)
(***************************************************************************)
EXTENDS Integers, Sequences, FiniteSets, TLC

(***************************************************************************)
(* Bounds of the model.                                                    *)
(***************************************************************************)
\* longest field list of a host metric or wire message
MaxFields == 2
\* width, in bits, of the model's int64 (Time is an int64 of nanoseconds)
NanoBits == 4

(***************************************************************************)
(* Go values held by a telegraf.Field (an interface{}): the dynamic type   *)
(* and the value, one slot per family of types.                            *)
(***************************************************************************)
GoValue(kind, n, s, b) == [kind |-> kind, n |-> n, s |-> s, b |-> b]

Nil == GoValue("nil", 0, "", FALSE)

IntKinds == {"int", "int8", "int16", "int32", "int64"}

UintKinds == {"uint", "uint8", "uint16", "uint32", "uint64"}

FloatKinds == {"float32", "float64"}

\* the five kinds a decoded field can have
SupportedKinds == {"int64", "uint64", "float64", "string", "bool"}

\* the kinds ToMetricMessage's type switch has a case for
EncodableKinds == IntKinds \cup UintKinds \cup FloatKinds \cup {"string", "bool"}

(***************************************************************************)
(* Go errors: nil, or an error with a message.  A message is the sequence  *)
(* of the pieces of text it is put together from (the empty message is     *)
(* <<>>), so that fmt.Errorf("...: %v", err) is a concatenation.           *)
(***************************************************************************)
NilError == [isNil |-> TRUE, msg |-> <<>>]

\* fmt.Errorf(prefix + "%v", err)
fmt_Errorf(prefix, err) == [isNil |-> FALSE, msg |-> <<prefix>> \o err.msg]

errors_New(text) == [isNil |-> FALSE, msg |-> text]

(***************************************************************************)
(* The wire messages (generated protobuf types).  A pointer to a message   *)
(* may be nil; every getter of a nil or unset part returns the zero value. *)
(***************************************************************************)
FieldType_Int64 == "Int64"

FieldType_Uint64 == "Uint64"

FieldType_Float64 == "Float64"

FieldType_String == "String"

FieldType_Bool == "Bool"

\* the value of a Field.Type that was never assigned (the enum's number 0)
FieldType_Zero == "zero"

\* an enum number the generated code has no name for
FieldType_Unrecognized == "unrecognized"

KnownFieldTypes ==
    {FieldType_Int64, FieldType_Uint64, FieldType_Float64, FieldType_String, FieldType_Bool}

ValueType_Counter == "Counter"

ValueType_Gauge == "Gauge"

ValueType_Summary == "Summary"

ValueType_Histogram == "Histogram"

\* Metric.Type never assigned
ValueType_Zero == "zero"

\* the oneof Field.Value: the slot that is set and its content
WireValue(slot, n, s, b) == [slot |-> slot, n |-> n, s |-> s, b |-> b]

NoWireValue == WireValue("none", 0, "", FALSE)

GetValueI64(f) == IF f.Value.slot = "ValueI64" THEN f.Value.n ELSE 0

GetValueU64(f) == IF f.Value.slot = "ValueU64" THEN f.Value.n ELSE 0

GetValueF64(f) == IF f.Value.slot = "ValueF64" THEN f.Value.n ELSE 0

GetValueString(f) == IF f.Value.slot = "ValueString" THEN f.Value.s ELSE ""

GetValueBool(f) == IF f.Value.slot = "ValueBool" THEN f.Value.b ELSE FALSE

\* *Error: nil pointer (present = FALSE) or a message
NilErrorMessage == [present |-> FALSE, IsError |-> FALSE, Message |-> <<>>]

ErrorMessage(isError, message) == [present |-> TRUE, IsError |-> isError, Message |-> message]

GetIsError(e) == IF e.present THEN e.IsError ELSE FALSE

GetMessage(e) == IF e.present THEN e.Message ELSE <<>>

(***************************************************************************)
(* Error codec.                                                            *)
(***************************************************************************)
ToErrorMessage(err) ==
    IF err.isNil
    THEN ErrorMessage(FALSE, <<>>)
    ELSE ErrorMessage(TRUE, err.msg)

\* Faulty variant of FromErrorMessage: an error with an empty message is
\* taken for success.
FromErrorMessage_EmptyIsNil(e) ==
    IF ~GetIsError(e) \/ GetMessage(e) = <<>>
    THEN NilError
    ELSE errors_New(GetMessage(e))

FromErrorMessage(e) ==
    IF ~GetIsError(e)
    THEN NilError
    ELSE errors_New(GetMessage(e))

(***************************************************************************)
(* int64 and time.                                                         *)
(***************************************************************************)
MinNano == -(2 ^ (NanoBits - 1))

MaxNano == (2 ^ (NanoBits - 1)) - 1

\* two's complement wrap of an integer into the int64 of the model
WrapInt64(x) == ((x - MinNano) % (2 ^ NanoBits)) + MinNano

\* Time.UnixNano: nanoseconds since the epoch as an int64
UnixNano(t) == WrapInt64(t)

\* time.Unix(0, nsec)
time_Unix(nsec) == nsec

(***************************************************************************)
(* internal.ToInt64, ToUint64, ToFloat64 on the kinds the type switch      *)
(* passes them: a widening conversion that keeps the number.               *)
(***************************************************************************)
internal_ToInt64(v) == [v |-> v.n, err |-> v.kind \notin IntKinds]

internal_ToUint64(v) == [v |-> v.n, err |-> v.kind \notin UintKinds]

internal_ToFloat64(v) == [v |-> v.n, err |-> v.kind \notin FloatKinds]

(***************************************************************************)
(* ToMetricMessage.                                                        *)
(***************************************************************************)
EncodeTag(tag) == [Key |-> tag.Key, Value |-> tag.Value]

\* one iteration of the field loop: the Field appended and whether the
\* conversion failed
EncodeField(field) ==
    LET f == [Key |-> field.Key, Type |-> FieldType_Zero, Value |-> NoWireValue]
        k == field.Value.kind
    IN  CASE k \in IntKinds ->
               LET c == internal_ToInt64(field.Value)
               IN  [err |-> c.err,
                    f |-> [f EXCEPT !.Type = FieldType_Int64,
                                    !.Value = WireValue("ValueI64", c.v, "", FALSE)]]
          [] k \in UintKinds ->
               LET c == internal_ToUint64(field.Value)
               IN  [err |-> c.err,
                    f |-> [f EXCEPT !.Type = FieldType_Uint64,
                                    !.Value = WireValue("ValueU64", c.v, "", FALSE)]]
          [] k \in FloatKinds ->
               LET c == internal_ToFloat64(field.Value)
               IN  [err |-> c.err,
                    f |-> [f EXCEPT !.Type = FieldType_Float64,
                                    !.Value = WireValue("ValueF64", c.v, "", FALSE)]]
          [] k = "string" ->
               [err |-> FALSE,
                f |-> [f EXCEPT !.Type = FieldType_String,
                                !.Value = WireValue("ValueString", 0, field.Value.s, FALSE)]]
          [] k = "bool" ->
               [err |-> FALSE,
                f |-> [f EXCEPT !.Type = FieldType_Bool,
                                !.Value = WireValue("ValueBool", 0, "", field.Value.b)]]
          [] OTHER -> [err |-> FALSE, f |-> f]

EncodeValueType(tp) ==
    CASE tp = "Counter" -> ValueType_Counter
      [] tp = "Gauge" -> ValueType_Gauge
      [] tp = "Summary" -> ValueType_Summary
      [] tp = "Histogram" -> ValueType_Histogram
      [] OTHER -> ValueType_Zero

EmptyMessage ==
    [Name |-> "", Tags |-> <<>>, Fields |-> <<>>, Time |-> 0, Type |-> ValueType_Zero]

\* (*Metric, error): err is set when a conversion failed and msg is then nil
ToMetricMessage(metric) ==
    LET enc == [i \in 1..Len(metric.fields) |-> EncodeField(metric.fields[i])]
    IN  IF \E i \in 1..Len(enc) : enc[i].err
        THEN [err |-> TRUE, msg |-> EmptyMessage]
        ELSE [err |-> FALSE,
              msg |-> [Name |-> metric.name,
                       Tags |-> [i \in 1..Len(metric.tags) |-> EncodeTag(metric.tags[i])],
                       Fields |-> [i \in 1..Len(enc) |-> enc[i].f],
                       Time |-> UnixNano(metric.tm),
                       Type |-> EncodeValueType(metric.tp)]]

(***************************************************************************)
(* metric.New (package metric): the metric built from a name, a map of     *)
(* tags, a map of fields, a time and a kind.  Tags are sorted by key;      *)
(* fields are added in the iteration order of the map, which Go leaves     *)
(* unspecified, and a field whose value convertField rejects is skipped.   *)
(* The result is therefore a set of possible metrics.                      *)
(***************************************************************************)
\* the tag keys of the model, in lexicographic order
KeyOrder == <<"host", "region">>

SortKeys(S) == SelectSeq(KeyOrder, LAMBDA k : k \in S)

Perms(S) ==
    {p \in [1..Cardinality(S) -> S] : \A i, j \in 1..Cardinality(S) : i # j => p[i] # p[j]}

convertField(v) == IF v.kind \in SupportedKinds THEN v ELSE Nil

metric_New(name, tags, fields, tm, tp) ==
    LET kept == {k \in DOMAIN fields : convertField(fields[k]) # Nil}
        tagKeys == SortKeys(DOMAIN tags)
    IN  {[name |-> name,
          tags |-> [i \in 1..Len(tagKeys) |-> [Key |-> tagKeys[i], Value |-> tags[tagKeys[i]]]],
          fields |-> [i \in 1..Len(p) |-> [Key |-> p[i], Value |-> convertField(fields[p[i]])]],
          tm |-> tm,
          tp |-> tp] : p \in Perms(kept)}

(***************************************************************************)
(* FromMetricMessage.                                                      *)
(***************************************************************************)
\* the entry of a list of keyed entries that a map built by assigning them in
\* order keeps for key k: the last one
LastIndex(entries, k) ==
    CHOOSE i \in DOMAIN entries :
        entries[i].Key = k /\ \A j \in DOMAIN entries : j > i => entries[j].Key # k

KeysOf(entries) == {entries[i].Key : i \in DOMAIN entries}

\* tags[tag.GetKey()] = tag.GetValue()
DecodeTags(tags) == [k \in KeysOf(tags) |-> tags[LastIndex(tags, k)].Value]

\* Faulty variant of DecodeAs: the Uint64 case reads the int64 slot.
DecodeAs_WrongSlot(t, f) ==
    CASE t = FieldType_Int64 -> GoValue("int64", GetValueI64(f), "", FALSE)
      [] t = FieldType_Uint64 -> GoValue("uint64", GetValueI64(f), "", FALSE)
      [] t = FieldType_Float64 -> GoValue("float64", GetValueF64(f), "", FALSE)
      [] t = FieldType_String -> GoValue("string", 0, GetValueString(f), FALSE)
      [] t = FieldType_Bool -> GoValue("bool", 0, "", GetValueBool(f))
      [] OTHER -> Nil

\* Faulty variant of DecodeAs: a default case that reads the int64 slot.
DecodeAs_DefaultInt64(t, f) ==
    CASE t = FieldType_Uint64 -> GoValue("uint64", GetValueU64(f), "", FALSE)
      [] t = FieldType_Float64 -> GoValue("float64", GetValueF64(f), "", FALSE)
      [] t = FieldType_String -> GoValue("string", 0, GetValueString(f), FALSE)
      [] t = FieldType_Bool -> GoValue("bool", 0, "", GetValueBool(f))
      [] OTHER -> GoValue("int64", GetValueI64(f), "", FALSE)

\* the value the switch on field.GetType() assigns when the type is t
DecodeAs(t, f) ==
    CASE t = FieldType_Int64 -> GoValue("int64", GetValueI64(f), "", FALSE)
      [] t = FieldType_Uint64 -> GoValue("uint64", GetValueU64(f), "", FALSE)
      [] t = FieldType_Float64 -> GoValue("float64", GetValueF64(f), "", FALSE)
      [] t = FieldType_String -> GoValue("string", 0, GetValueString(f), FALSE)
      [] t = FieldType_Bool -> GoValue("bool", 0, "", GetValueBool(f))
      [] OTHER -> Nil

\* The values the switch can assign.  The enum's number 0 is not fixed by the
\* sources at hand: it is one of the five named types or none of them.
DecodeValues(f) ==
    IF f.Type = FieldType_Zero
    THEN {Nil} \cup {DecodeAs(t, f) : t \in KnownFieldTypes}
    ELSE {DecodeAs(f.Type, f)}

\* fields[field.GetKey()] = value
DecodeFields(fields) ==
    LET all == UNION {DecodeValues(fields[i]) : i \in DOMAIN fields}
    IN  {fm \in [KeysOf(fields) -> all] :
            \A k \in KeysOf(fields) : fm[k] \in DecodeValues(fields[LastIndex(fields, k)])}

DecodeValueType(t) ==
    CASE t = ValueType_Counter -> "Counter"
      [] t = ValueType_Gauge -> "Gauge"
      [] t = ValueType_Summary -> "Summary"
      [] t = ValueType_Histogram -> "Histogram"
      [] OTHER -> "Untyped"

\* the metrics FromMetricMessage can return for m
FromMetricMessage(m) ==
    UNION {metric_New(m.Name, DecodeTags(m.Tags), fm, time_Unix(m.Time), DecodeValueType(m.Type)) :
              fm \in DecodeFields(m.Fields)}

(***************************************************************************)
(* ToMetricsMessage, FromMetricsMessage.                                   *)
(***************************************************************************)
ToMetricsMessage(metrics) ==
    LET enc == [i \in 1..Len(metrics) |-> ToMetricMessage(metrics[i])]
    IN  IF \E i \in 1..Len(enc) : enc[i].err
        THEN [err |-> TRUE, msgs |-> <<>>]
        ELSE [err |-> FALSE, msgs |-> [i \in 1..Len(enc) |-> enc[i].msg]]

\* the slices FromMetricsMessage can return
FromMetricsMessage(msgmetrics) ==
    LET all == UNION {FromMetricMessage(msgmetrics[i]) : i \in DOMAIN msgmetrics}
    IN  {ms \in [1..Len(msgmetrics) -> all] :
            \A i \in 1..Len(msgmetrics) : ms[i] \in FromMetricMessage(msgmetrics[i])}

(***************************************************************************)
(* Text.  A string that the program takes apart (a checksum, a             *)
(* configuration) is the sequence of its characters.                       *)
(***************************************************************************)
LowerHex == <<"0", "1", "2", "3", "4", "5", "6", "7", "8", "9", "a", "b", "c", "d", "e", "f">>

UpperHex == <<"A", "B", "C", "D", "E", "F">>

\* the value of a hexadecimal digit, -1 for any other character
HexValue(c) ==
    IF \E i \in DOMAIN LowerHex : LowerHex[i] = c
    THEN (CHOOSE i \in DOMAIN LowerHex : LowerHex[i] = c) - 1
    ELSE IF \E i \in DOMAIN UpperHex : UpperHex[i] = c
         THEN (CHOOSE i \in DOMAIN UpperHex : UpperHex[i] = c) + 9
         ELSE -1

\* hex.DecodeString: the bytes, or an error for an odd length or a character
\* that is no hexadecimal digit
hex_DecodeString(str) ==
    IF Len(str) % 2 = 1 \/ \E i \in DOMAIN str : HexValue(str[i]) < 0
    THEN [err |-> TRUE, bytes |-> <<>>]
    ELSE [err |-> FALSE,
          bytes |-> [i \in 1..(Len(str) \div 2) |->
                        16 * HexValue(str[2 * i - 1]) + HexValue(str[2 * i])]]

\* the position of the first sep in str, 0 if there is none
IndexOf(str, sep) ==
    IF \E i \in DOMAIN str : str[i] = sep
    THEN CHOOSE i \in DOMAIN str : str[i] = sep /\ \A j \in 1..(i - 1) : str[j] # sep
    ELSE 0

\* strings.SplitAfterN(str, sep, n) for n > 0: at most n pieces, each but the
\* last ending with sep, the last one the unsplit rest
RECURSIVE strings_SplitAfterN(_, _, _)
strings_SplitAfterN(str, sep, n) ==
    IF n = 1 \/ IndexOf(str, sep) = 0
    THEN <<str>>
    ELSE <<SubSeq(str, 1, IndexOf(str, sep))>>
            \o strings_SplitAfterN(SubSeq(str, IndexOf(str, sep) + 1, Len(str)), sep, n - 1)

(***************************************************************************)
(* SetupReceiver: the configuration of the plugin client.  plugin.NewClient *)
(* starts nothing; the process is started by the first Client() call.      *)
(***************************************************************************)
\* the protocol version of the handshake
ProtocolVersion == 1

MagicCookieKey == "TELEGRAF_PLUGIN"

MagicCookieValue == "f2d7c59c-bd1a-4f38-8543-7d1d51b81d49"

handshake == [ProtocolVersion |-> ProtocolVersion, MagicCookieKey |-> MagicCookieKey,
              MagicCookieValue |-> MagicCookieValue]

\* the plugin types the client can dispense
plugins == {"input"}

\* StartTimeout: time.Second, in seconds
StartTimeout == 1

NoClient ==
    [HandshakeConfig |-> handshake, Plugins |-> {}, Secure |-> FALSE, Checksum |-> <<>>,
     StartTimeout |-> StartTimeout]

\* Faulty variant of SetupReceiver: the checksum is decoded but no
\* SecureConfig is handed to the client.
SetupReceiver_NoSecureConfig(checksum) ==
    IF checksum # <<>> /\ hex_DecodeString(checksum).err
    THEN [err |-> errors_New(<<"decoding checksum failed: ", "hex">>), client |-> NoClient]
    ELSE [err |-> NilError,
          client |-> [HandshakeConfig |-> handshake, Plugins |-> plugins, Secure |-> FALSE,
                      Checksum |-> <<>>, StartTimeout |-> StartTimeout]]

\* Faulty variant of SetupReceiver: a start timeout of two seconds.
SetupReceiver_LongStartTimeout(checksum) ==
    IF checksum # <<>>
    THEN LET checksumraw == hex_DecodeString(checksum)
         IN  IF checksumraw.err
             THEN [err |-> errors_New(<<"decoding checksum failed: ", "hex">>),
                   client |-> NoClient]
             ELSE [err |-> NilError,
                   client |-> [HandshakeConfig |-> handshake, Plugins |-> plugins,
                               Secure |-> TRUE, Checksum |-> checksumraw.bytes,
                               StartTimeout |-> StartTimeout + 1]]
    ELSE [err |-> NilError,
          client |-> [HandshakeConfig |-> handshake, Plugins |-> plugins, Secure |-> FALSE,
                      Checksum |-> <<>>, StartTimeout |-> StartTimeout + 1]]

\* (*plugin.Client, error)
SetupReceiver(checksum) ==
    IF checksum # <<>>
    THEN LET checksumraw == hex_DecodeString(checksum)
         IN  IF checksumraw.err
             THEN [err |-> errors_New(<<"decoding checksum failed: ", "hex">>),
                   client |-> NoClient]
             ELSE [err |-> NilError,
                   client |-> [HandshakeConfig |-> handshake, Plugins |-> plugins,
                               Secure |-> TRUE, Checksum |-> checksumraw.bytes,
                               StartTimeout |-> StartTimeout]]
    ELSE [err |-> NilError,
          client |-> [HandshakeConfig |-> handshake, Plugins |-> plugins, Secure |-> FALSE,
                      Checksum |-> <<>>, StartTimeout |-> StartTimeout]]

(***************************************************************************)
(* The plugin client of the go-plugin library as the launcher contract     *)
(* describes it.  What the operating system and the child do is given by   *)
(* env: whether the process can be spawned, how its handshake ends, whether *)
(* the connection to it can be set up.                                     *)
(***************************************************************************)
\* the SHA-256 digest of the executable (one byte in the model)
ExeDigest == <<170>>

LaunchEnvs ==
    [spawn : {"ok", "fail"}, handshake : {"ok", "timeout", "mismatch"},
     connect : {"ok", "fail"}]

\* client.Client(): the error, the state of the subprocess and how far the
\* handshake got.  The digest is checked before the process is spawned; a
\* process whose handshake fails is killed before the error is returned.
client_Client(client, env) ==
    IF client.Secure /\ client.Checksum # ExeDigest
    THEN [err |-> errors_New(<<"checksums did not match">>), proc |-> "none",
          handshake |-> "none"]
    ELSE IF env.spawn = "fail"
    THEN [err |-> errors_New(<<"fork/exec failed">>), proc |-> "none", handshake |-> "none"]
    ELSE IF env.handshake = "timeout"
    THEN [err |-> errors_New(<<"timeout while waiting for plugin to start">>),
          proc |-> "killed", handshake |-> "timeout"]
    ELSE IF env.handshake = "mismatch"
    THEN [err |-> errors_New(<<"unrecognized remote plugin message">>),
          proc |-> "killed", handshake |-> "mismatch"]
    ELSE IF env.connect = "fail"
    THEN [err |-> errors_New(<<"connection failed">>), proc |-> "running", handshake |-> "ok"]
    ELSE [err |-> NilError, proc |-> "running", handshake |-> "ok"]

\* clientProto.Dispense(name): the stub the plugin type of that name makes
\* (ExternalPlugin.GRPCClient), an error if the client has no such type
client_Dispense(client, name) ==
    IF name \notin client.Plugins
    THEN [err |-> errors_New(<<"unknown plugin type">>), raw |-> "none"]
    ELSE [err |-> NilError, raw |-> "externalInputClient"]

(***************************************************************************)
(* NewWrapper and the creator returned by NewInputWrapper.                 *)
(***************************************************************************)
\* (*Wrapper, error), with the state the subprocess is left in
NewWrapper(name, config, client, env) ==
    LET c == client_Client(client, env)
        d == client_Dispense(client, "input")
    IN  IF ~c.err.isNil
        THEN [err |-> fmt_Errorf("connecting to external plugin failed: ", c.err),
              ok |-> FALSE, proc |-> c.proc, handshake |-> c.handshake]
        ELSE IF ~d.err.isNil
        THEN [err |-> fmt_Errorf("cannot dispense input plugin: ", d.err),
              ok |-> FALSE, proc |-> c.proc, handshake |-> c.handshake]
        ELSE IF d.raw # "externalInputClient"
        THEN [err |-> errors_New(<<"external plugin is not an input plugin">>),
              ok |-> FALSE, proc |-> c.proc, handshake |-> c.handshake]
        ELSE [err |-> NilError, ok |-> TRUE, proc |-> c.proc, handshake |-> c.handshake]

\* the creator: SetupReceiver, then NewWrapper
Creator(name, config, checksum, env) ==
    LET r == SetupReceiver(checksum)
    IN  IF ~r.err.isNil
        THEN [err |-> r.err, ok |-> FALSE, proc |-> "none", handshake |-> "none"]
        ELSE NewWrapper(name, config, r.client, env)

(***************************************************************************)
(* The plugin side: the gRPC server of an input plugin.  A configuration   *)
(* is text over a small alphabet: "h" a character of the header line,      *)
(* "k" and "l" assignments to settings of the plugin, "j" an assignment    *)
(* to a setting the plugin does not have, "!" text that is no TOML.  The   *)
(* plugin's configuration state is the set of settings applied so far.     *)
(***************************************************************************)
NewLine == "\n"

PluginSettings == {"k", "l"}

\* toml.Parse: the table of the text (its keys), or an error
toml_Parse(text) ==
    IF \E i \in DOMAIN text : text[i] = "!"
    THEN [err |-> errors_New(<<"toml: parse error">>), table |-> {}]
    ELSE [err |-> NilError, table |-> {text[i] : i \in DOMAIN text} \ {NewLine}]

\* toml.UnmarshalTable: the table applied onto the plugin; a key that is no
\* setting of the plugin is an error, and the settings in partial are those
\* applied before it was met
toml_UnmarshalTable(table, applied, partial) ==
    IF table \subseteq PluginSettings
    THEN [err |-> NilError, applied |-> applied \cup table]
    ELSE [err |-> errors_New(<<"toml: field not found">>),
          applied |-> applied \cup (partial \cap table \cap PluginSettings)]

\* Faulty variant of server_Configure: a text without a line break is
\* refused.
server_Configure_HeaderRequired(config, applied, partial) ==
    LET parts == strings_SplitAfterN(config, NewLine, 2)
        missing == errors_New(<<"missing configuration table">>)
    IN  IF Len(parts) < 2
        THEN [err |-> missing, rpcErr |-> FALSE, resp |-> ToErrorMessage(missing),
              applied |-> applied]
        ELSE LET t == toml_Parse(parts[2])
             IN  IF ~t.err.isNil
                 THEN [err |-> t.err, rpcErr |-> FALSE, resp |-> ToErrorMessage(t.err),
                       applied |-> applied]
                 ELSE LET u == toml_UnmarshalTable(t.table, applied, partial)
                      IN  [err |-> u.err, rpcErr |-> FALSE, resp |-> ToErrorMessage(u.err),
                           applied |-> u.applied]

\* Faulty variant of server_Configure: the header line is not stripped.
server_Configure_NoStrip(config, applied, partial) ==
    LET t == toml_Parse(config)
        u == toml_UnmarshalTable(t.table, applied, partial)
    IN  IF ~t.err.isNil
        THEN [err |-> t.err, rpcErr |-> FALSE, resp |-> ToErrorMessage(t.err),
              applied |-> applied]
        ELSE [err |-> u.err, rpcErr |-> FALSE, resp |-> ToErrorMessage(u.err),
              applied |-> u.applied]

\* Faulty variant of server_Configure: a parse error is returned as the
\* error of the call.
server_Configure_ParseErrorAsFault(config, applied, partial) ==
    LET parts == strings_SplitAfterN(config, NewLine, 2)
    IN  IF Len(parts) < 2
        THEN [err |-> NilError, rpcErr |-> FALSE, resp |-> ToErrorMessage(NilError),
              applied |-> applied]
        ELSE LET t == toml_Parse(parts[2])
             IN  IF ~t.err.isNil
                 THEN [err |-> t.err, rpcErr |-> TRUE, resp |-> NilErrorMessage,
                       applied |-> applied]
                 ELSE LET u == toml_UnmarshalTable(t.table, applied, partial)
                      IN  [err |-> u.err, rpcErr |-> FALSE, resp |-> ToErrorMessage(u.err),
                           applied |-> u.applied]

\* server.Configure: err is the failure met, resp and rpcErr the response
\* and whether an error is returned in its place, applied the plugin's
\* configuration state afterwards
server_Configure(config, applied, partial) ==
    LET parts == strings_SplitAfterN(config, NewLine, 2)
    IN  IF Len(parts) < 2
        THEN [err |-> NilError, rpcErr |-> FALSE, resp |-> ToErrorMessage(NilError),
              applied |-> applied]
        ELSE LET t == toml_Parse(parts[2])
             IN  IF ~t.err.isNil
                 THEN [err |-> t.err, rpcErr |-> FALSE, resp |-> ToErrorMessage(t.err),
                       applied |-> applied]
                 ELSE LET u == toml_UnmarshalTable(t.table, applied, partial)
                      IN  [err |-> u.err, rpcErr |-> FALSE, resp |-> ToErrorMessage(u.err),
                           applied |-> u.applied]

\* server.Init: err is what the plugin's Init returned
server_Init(err) == [err |-> err, rpcErr |-> FALSE, resp |-> ToErrorMessage(err)]

\* server.Gather: metrics and err are what the plugin's Gather returned
server_Gather(metrics, err) ==
    IF ~err.isNil
    THEN [err |-> err, rpcErr |-> FALSE, Error |-> ToErrorMessage(err), Metric |-> <<>>]
    ELSE LET msgmetrics == ToMetricsMessage(metrics)
         IN  IF msgmetrics.err
             THEN [err |-> err, rpcErr |-> TRUE, Error |-> NilErrorMessage, Metric |-> <<>>]
             ELSE [err |-> err, rpcErr |-> FALSE, Error |-> NilErrorMessage,
                   Metric |-> msgmetrics.msgs]

(***************************************************************************)
(* One remote call.  net says what the transport does with it: "ok", the   *)
(* request is delivered and the response comes back; "noreply", the        *)
(* request is delivered and the response is lost; "lost", the request      *)
(* never arrives.  A process that is not running receives nothing.         *)
(***************************************************************************)
NetOutcomes == {"ok", "noreply", "lost"}

Delivered(proc, net) == proc = "running" /\ net \in {"ok", "noreply"}

Replied(proc, net) == proc = "running" /\ net = "ok"

TransportError == errors_New(<<"rpc error: code = Unavailable">>)

\* what the server did with a call it received: the failure it met, whether
\* it returned an error in place of the response, the error message sent
Served(rpc, err, rpcErr, resp) == [rpc |-> rpc, err |-> err, rpcErr |-> rpcErr, Error |-> resp]

(***************************************************************************)
(* The host side: the stub (externalInputClient).                          *)
(***************************************************************************)
Call(rpc, arg) == [rpc |-> rpc, arg |-> arg]

\* Configure: the error returned, whether the process received the call,
\* what the server did with it and the plugin's configuration state
\* afterwards
externalInputClient_Configure(config, proc, applied, env) ==
    LET sc == server_Configure(config, applied, env.partial)
    IN  [ret |-> IF Replied(proc, env.net1) /\ ~sc.rpcErr
                 THEN FromErrorMessage(sc.resp)
                 ELSE fmt_Errorf("gRPC call failed: ", TransportError),
         delivered |-> Delivered(proc, env.net1),
         served |-> IF Delivered(proc, env.net1)
                    THEN <<Served("Configure", sc.err, sc.rpcErr, sc.resp)>> ELSE <<>>,
         applied |-> IF Delivered(proc, env.net1) THEN sc.applied ELSE applied]

externalInputClient_Init(proc, env) ==
    LET si == server_Init(env.initErr)
    IN  [ret |-> IF Replied(proc, env.net2) /\ ~si.rpcErr
                 THEN FromErrorMessage(si.resp)
                 ELSE fmt_Errorf("gRPC call failed: ", TransportError),
         delivered |-> Delivered(proc, env.net2),
         served |-> IF Delivered(proc, env.net2)
                    THEN <<Served("Init", si.err, si.rpcErr, si.resp)>> ELSE <<>>]

\* Faulty variant of externalInputClient_Gather: the error message of the
\* response is not looked at.
externalInputClient_Gather_IgnoreError(proc, env) ==
    LET resp == server_Gather(env.metrics, env.err)
        called == [issued |-> <<Call("Gather", <<>>)>>,
                   delivered |-> IF Delivered(proc, env.net) THEN <<"Gather">> ELSE <<>>,
                   served |-> IF Delivered(proc, env.net)
                              THEN <<Served("Gather", resp.err, resp.rpcErr, resp.Error)>>
                              ELSE <<>>]
    IN  IF ~Replied(proc, env.net) \/ resp.rpcErr
        THEN {[metrics |-> <<>>, err |-> fmt_Errorf("gRPC call failed: ", TransportError),
               replied |-> FALSE, resp |-> <<>>, call |-> called]}
        ELSE {[metrics |-> ms, err |-> NilError, replied |-> TRUE, resp |-> resp.Metric,
               call |-> called] : ms \in FromMetricsMessage(resp.Metric)}

\* Faulty variant of externalInputClient_Gather: a call that failed is
\* made a second time.
externalInputClient_Gather_Retry(proc, env) ==
    LET resp == server_Gather(env.metrics, env.err)
        once == IF Delivered(proc, env.net) THEN <<"Gather">> ELSE <<>>
        did == IF Delivered(proc, env.net)
               THEN <<Served("Gather", resp.err, resp.rpcErr, resp.Error)>> ELSE <<>>
        called == [issued |-> <<Call("Gather", <<>>)>>, delivered |-> once, served |-> did]
        again == [issued |-> <<Call("Gather", <<>>), Call("Gather", <<>>)>>,
                  delivered |-> once \o once, served |-> did \o did]
    IN  IF ~Replied(proc, env.net) \/ resp.rpcErr
        THEN {[metrics |-> <<>>, err |-> fmt_Errorf("gRPC call failed: ", TransportError),
               replied |-> FALSE, resp |-> <<>>, call |-> again]}
        ELSE IF ~FromErrorMessage(resp.Error).isNil
        THEN {[metrics |-> <<>>, err |-> FromErrorMessage(resp.Error), replied |-> TRUE,
               resp |-> <<>>, call |-> called]}
        ELSE {[metrics |-> ms, err |-> NilError, replied |-> TRUE, resp |-> resp.Metric,
               call |-> called] : ms \in FromMetricsMessage(resp.Metric)}

\* Gather: the possible results (the decoded metrics and the error), with
\* the response they were read from and the call made: the request issued,
\* whether the process received it and what the server did with it
externalInputClient_Gather(proc, env) ==
    LET resp == server_Gather(env.metrics, env.err)
        called == [issued |-> <<Call("Gather", <<>>)>>,
                   delivered |-> IF Delivered(proc, env.net) THEN <<"Gather">> ELSE <<>>,
                   served |-> IF Delivered(proc, env.net)
                              THEN <<Served("Gather", resp.err, resp.rpcErr, resp.Error)>>
                              ELSE <<>>]
    IN  IF ~Replied(proc, env.net) \/ resp.rpcErr
        THEN {[metrics |-> <<>>, err |-> fmt_Errorf("gRPC call failed: ", TransportError),
               replied |-> FALSE, resp |-> <<>>, call |-> called]}
        ELSE IF ~FromErrorMessage(resp.Error).isNil
        THEN {[metrics |-> <<>>, err |-> FromErrorMessage(resp.Error), replied |-> TRUE,
               resp |-> <<>>, call |-> called]}
        ELSE {[metrics |-> ms, err |-> NilError, replied |-> TRUE, resp |-> resp.Metric,
               call |-> called] : ms \in FromMetricsMessage(resp.Metric)}

(***************************************************************************)
(* The host side: the Wrapper.                                             *)
(***************************************************************************)
\* Faulty variant of Wrapper_Init: the remote Init is issued whatever
\* Configure returned.
Wrapper_Init_NoCheck(config, proc, applied, env) ==
    LET c == externalInputClient_Configure(config, proc, applied, env)
        n == externalInputClient_Init(proc, env)
    IN  [ret |-> n.ret,
         issued |-> <<Call("Configure", config), Call("Init", <<>>)>>,
         results |-> <<c.ret, n.ret>>,
         received |-> (IF c.delivered THEN <<"Configure">> ELSE <<>>)
                         \o (IF n.delivered THEN <<"Init">> ELSE <<>>),
         served |-> c.served \o n.served,
         applied |-> c.applied]

\* Wrapper.Init: the error returned, the remote calls issued with the error
\* each returned, the calls the process received and what the server did
\* with them, and the plugin's configuration state afterwards
Wrapper_Init(config, proc, applied, env) ==
    LET c == externalInputClient_Configure(config, proc, applied, env)
        n == externalInputClient_Init(proc, env)
    IN  IF ~c.ret.isNil
        THEN [ret |-> fmt_Errorf("configuration failed: ", c.ret),
              issued |-> <<Call("Configure", config)>>,
              results |-> <<c.ret>>,
              received |-> IF c.delivered THEN <<"Configure">> ELSE <<>>,
              served |-> c.served,
              applied |-> c.applied]
        ELSE [ret |-> n.ret,
              issued |-> <<Call("Configure", config), Call("Init", <<>>)>>,
              results |-> <<c.ret, n.ret>>,
              received |-> (IF c.delivered THEN <<"Configure">> ELSE <<>>)
                              \o (IF n.delivered THEN <<"Init">> ELSE <<>>),
              served |-> c.served \o n.served,
              applied |-> c.applied]

\* Faulty variant of Wrapper_Gather: the metrics are added in reverse.
Wrapper_Gather_Reversed(acc, g) ==
    IF ~g.err.isNil
    THEN [ret |-> g.err, acc |-> acc, kill |-> FALSE]
    ELSE [ret |-> NilError,
          acc |-> acc \o [i \in 1..Len(g.metrics) |-> g.metrics[Len(g.metrics) + 1 - i]],
          kill |-> FALSE]

\* Faulty variant of Wrapper_Gather: the plugin process is killed when the
\* call fails.
Wrapper_Gather_KillOnError(acc, g) ==
    IF ~g.err.isNil
    THEN [ret |-> g.err, acc |-> acc, kill |-> TRUE]
    ELSE [ret |-> NilError, acc |-> acc \o g.metrics, kill |-> FALSE]

\* Wrapper.Gather on the result g of the stub's Gather: the error returned,
\* the accumulator after acc.AddMetric of every metric, and whether the
\* plugin client is killed (it never is)
Wrapper_Gather(acc, g) ==
    IF ~g.err.isNil
    THEN [ret |-> g.err, acc |-> acc, kill |-> FALSE]
    ELSE [ret |-> NilError, acc |-> acc \o g.metrics, kill |-> FALSE]

(***************************************************************************)
(* Discovery: the checksum file of a category directory and the walk over  *)
(* the directory.  A file is what opening it gives ("absent", "denied" or  *)
(* "present"), the lines the scanner splits it into and whether the        *)
(* scanner ends with an error; a line is a sequence of characters.  A      *)
(* manifest is a set of entries Key |-> Value with no key twice.  A result  *)
(* is "ok", "error" or "panic" (a run-time panic of the Go code).          *)
(***************************************************************************)
ChecksumFilename == "checksums"

Space == " "

\* strings.SplitN(str, sep, 2): the text before the first sep and the text
\* behind it, or the text alone
strings_SplitN(str, sep) ==
    IF IndexOf(str, sep) = 0
    THEN <<str>>
    ELSE <<SubSeq(str, 1, IndexOf(str, sep) - 1),
           SubSeq(str, IndexOf(str, sep) + 1, Len(str))>>

\* checksums[key] = value
MapSet(m, key, value) ==
    {e \in m : e.Key # key} \cup {[Key |-> key, Value |-> value]}

NoChecksums == [kind |-> "ok", isNil |-> TRUE, checksums |-> {}, err |-> NilError, lineno |-> 0]

\* Faulty variant of ReadLines: the mode character is not stripped.
RECURSIVE ReadLines_KeepMode(_, _, _)
ReadLines_KeepMode(file, lineno, checksums) ==
    IF lineno > Len(file.lines)
    THEN [kind |-> "ok", isNil |-> FALSE, checksums |-> checksums, err |-> NilError,
          lineno |-> lineno - 1]
    ELSE LET fields == strings_SplitN(file.lines[lineno], Space)
         IN  IF Len(fields) # 2
             THEN [NoChecksums EXCEPT !.kind = "error", !.lineno = lineno,
                      !.err = errors_New(<<"invalid number of fields in checksum file">>)]
             ELSE ReadLines_KeepMode(file, lineno + 1,
                                     MapSet(checksums, fields[2], fields[1]))

\* Faulty variant of ReadLines: a line that starts with "#" is skipped.
RECURSIVE ReadLines_SkipComments(_, _, _)
ReadLines_SkipComments(file, lineno, checksums) ==
    IF lineno > Len(file.lines)
    THEN [kind |-> "ok", isNil |-> FALSE, checksums |-> checksums, err |-> NilError,
          lineno |-> lineno - 1]
    ELSE LET fields == strings_SplitN(file.lines[lineno], Space)
         IN  IF Len(file.lines[lineno]) > 0 /\ file.lines[lineno][1] = "#"
             THEN ReadLines_SkipComments(file, lineno + 1, checksums)
             ELSE IF Len(fields) # 2
             THEN [NoChecksums EXCEPT !.kind = "error", !.lineno = lineno,
                      !.err = errors_New(<<"invalid number of fields in checksum file">>)]
             ELSE IF Len(fields[2]) = 0
             THEN [NoChecksums EXCEPT !.kind = "panic", !.lineno = lineno]
             ELSE ReadLines_SkipComments(file, lineno + 1,
                                         MapSet(checksums, Tail(fields[2]), fields[1]))

\* the scanner loop of readChecksums from line lineno on
RECURSIVE ReadLines(_, _, _)
ReadLines(file, lineno, checksums) ==
    IF lineno > Len(file.lines)
    THEN IF file.scanErr
         THEN [NoChecksums EXCEPT !.kind = "error", !.lineno = lineno - 1,
                  !.err = errors_New(<<"reading checksum file failed: ", "token too long">>)]
         ELSE [kind |-> "ok", isNil |-> FALSE, checksums |-> checksums, err |-> NilError,
               lineno |-> lineno - 1]
    ELSE LET fields == strings_SplitN(file.lines[lineno], Space)
         IN  IF Len(fields) # 2
             THEN [NoChecksums EXCEPT !.kind = "error", !.lineno = lineno,
                      !.err = errors_New(<<"invalid number of fields in checksum file">>)]
             ELSE IF Len(fields[2]) = 0
             THEN \* fields[1][1:] of an empty string: slice bounds out of range
                  [NoChecksums EXCEPT !.kind = "panic", !.lineno = lineno]
             ELSE ReadLines(file, lineno + 1, MapSet(checksums, Tail(fields[2]), fields[1]))

\* Faulty variant of readChecksums: a missing file is an error.
readChecksums_MissingIsError(file) ==
    IF file.state # "present"
    THEN [NoChecksums EXCEPT !.kind = "error",
             !.err = errors_New(<<"cannot read checksum file: ", file.state>>)]
    ELSE ReadLines(file, 1, {})

\* (map[string]string, error)
readChecksums(file) ==
    IF file.state = "absent"
    THEN NoChecksums
    ELSE IF file.state # "present"
    THEN [NoChecksums EXCEPT !.kind = "error",
             !.err = errors_New(<<"cannot read checksum file: ", file.state>>)]
    ELSE ReadLines(file, 1, {})

(***************************************************************************)
(* Discover.  A root maps every category to what os.Stat finds at its path *)
(* ("absent", "error", "file" or "dir"), whether the path itself is a      *)
(* symbolic link to that directory, whether the directory can be listed,   *)
(* the checksum file in it and the entries below it in the order of the    *)
(* walk.  An entry has a base name, the subdirectory it lies in ("" for    *)
(* the category directory itself), whether os.Lstat of it succeeds, a mode *)
(* ("file", "dir", "symlink" or "special"), whether a permission bit for   *)
(* execution is set, for a directory whether it can be listed and, for a   *)
(* symbolic link, the mode and the permission of its target (tmode         *)
(* "broken" when os.Stat of the link fails).                               *)
(***************************************************************************)
Categories == <<"inputs", "outputs", "processors", "aggregators">>

isFileRegularAndExecutable(info) ==
    IF info.mode = "symlink"
    THEN info.tmode = "file" /\ info.texec
    ELSE info.mode = "file" /\ info.exec

\* filepath.Walk does not go below a directory it cannot list, having
\* handed the failure to the callback with the directory's own info
Visited(entries, e) ==
    \/ e.in = ""
    \/ \E k \in DOMAIN entries :
           /\ entries[k].name = e.in /\ entries[k].in = ""
           /\ entries[k].lstat /\ entries[k].mode = "dir" /\ entries[k].readable

\* the callback Discover hands to filepath.Walk, applied to the entries from
\* the i-th on: an entry os.Lstat fails on comes with a nil info, on which
\* info.Mode() panics; the callback returns nil whatever error it is given
RECURSIVE WalkFrom(_, _, _)
WalkFrom(entries, i, names) ==
    IF i > Len(entries)
    THEN [kind |-> "ok", names |-> names]
    ELSE LET e == entries[i]
         IN  IF ~Visited(entries, e)
             THEN WalkFrom(entries, i + 1, names)
             ELSE IF ~e.lstat
             THEN [kind |-> "panic", names |-> names]
             ELSE WalkFrom(entries, i + 1,
                     IF isFileRegularAndExecutable(e) THEN Append(names, e.name) ELSE names)

\* filepath.Walk(categoryPath, ...): os.Lstat of a path that is a symbolic
\* link gives the link, which is no directory, so that the callback sees the
\* link alone; of a directory that cannot be listed it sees the directory
\* alone
filepath_Walk(dir) ==
    IF dir.link \/ ~dir.readable
    THEN [kind |-> "ok", names |-> <<>>]
    ELSE WalkFrom(dir.entries, 1, <<>>)

NoManifest == [present |-> FALSE, isNil |-> TRUE, checksums |-> {}]

NoDiscovery ==
    [kind |-> "ok", register |-> [c \in {} |-> <<>>], checksums |-> [c \in {} |-> NoManifest],
     err |-> NilError]

RECURSIVE DiscoverFrom_MissingIsError(_, _, _, _)
DiscoverFrom_MissingIsError(root, i, register, checksums) ==
    IF i > Len(Categories)
    THEN [kind |-> "ok", register |-> register, checksums |-> checksums, err |-> NilError]
    ELSE LET category == Categories[i]
             dir == root[category]
             reg == [c \in DOMAIN register \cup {category} |->
                        IF c = category THEN <<>> ELSE register[c]]
             sums == readChecksums(dir.checksums)
             walk == filepath_Walk(dir)
         IN  IF dir.stat = "absent"
             THEN [NoDiscovery EXCEPT !.kind = "error",
                      !.err = errors_New(<<"checking directory failed: ", category>>)]
             ELSE IF dir.stat = "error"
             THEN [NoDiscovery EXCEPT !.kind = "error",
                      !.err = errors_New(<<"checking directory failed: ", category>>)]
             ELSE IF dir.stat # "dir"
             THEN DiscoverFrom_MissingIsError(root, i + 1, reg, checksums)
             ELSE IF sums.kind = "panic"
             THEN [NoDiscovery EXCEPT !.kind = "panic"]
             ELSE IF sums.kind = "error"
             THEN [NoDiscovery EXCEPT !.kind = "error", !.err = sums.err]
             ELSE IF walk.kind = "panic"
             THEN [NoDiscovery EXCEPT !.kind = "panic"]
             ELSE IF walk.kind = "error"
             THEN [NoDiscovery EXCEPT !.kind = "error",
                      !.err = errors_New(<<"path cannot be walked: ", category>>)]
             ELSE DiscoverFrom_MissingIsError(root, i + 1,
                     [reg EXCEPT ![category] = walk.names],
                     [c \in DOMAIN checksums \cup {category} |->
                         IF c = category
                         THEN [present |-> TRUE, isNil |-> sums.isNil,
                               checksums |-> sums.checksums]
                         ELSE checksums[c]])

\* the loop of Discover from the i-th category on
RECURSIVE DiscoverFrom(_, _, _, _)
DiscoverFrom(root, i, register, checksums) ==
    IF i > Len(Categories)
    THEN [kind |-> "ok", register |-> register, checksums |-> checksums, err |-> NilError]
    ELSE LET category == Categories[i]
             dir == root[category]
             reg == [c \in DOMAIN register \cup {category} |->
                        IF c = category THEN <<>> ELSE register[c]]
             sums == readChecksums(dir.checksums)
             walk == filepath_Walk(dir)
         IN  IF dir.stat = "absent"
             THEN DiscoverFrom(root, i + 1, reg, checksums)
             ELSE IF dir.stat = "error"
             THEN [NoDiscovery EXCEPT !.kind = "error",
                      !.err = errors_New(<<"checking directory failed: ", category>>)]
             ELSE IF dir.stat # "dir"
             THEN DiscoverFrom(root, i + 1, reg, checksums)
             ELSE IF sums.kind = "panic"
             THEN [NoDiscovery EXCEPT !.kind = "panic"]
             ELSE IF sums.kind = "error"
             THEN [NoDiscovery EXCEPT !.kind = "error", !.err = sums.err]
             ELSE IF walk.kind = "panic"
             THEN [NoDiscovery EXCEPT !.kind = "panic"]
             ELSE IF walk.kind = "error"
             THEN [NoDiscovery EXCEPT !.kind = "error",
                      !.err = errors_New(<<"path cannot be walked: ", category>>)]
             ELSE DiscoverFrom(root, i + 1,
                     [reg EXCEPT ![category] = walk.names],
                     [c \in DOMAIN checksums \cup {category} |->
                         IF c = category
                         THEN [present |-> TRUE, isNil |-> sums.isNil,
                               checksums |-> sums.checksums]
                         ELSE checksums[c]])

\* (register, checksums, error)
Discover(root) == DiscoverFrom(root, 1, [c \in {} |-> <<>>], [c \in {} |-> NoManifest])

(***************************************************************************)
(* The writer the client is given for the standard error of the child.    *)
(* Text is a sequence of characters, the host log a sequence of texts.     *)
(***************************************************************************)
Tab == "\t"

\* strings.Split(str, sep)
RECURSIVE strings_Split(_, _)
strings_Split(str, sep) ==
    IF IndexOf(str, sep) = 0
    THEN <<str>>
    ELSE <<SubSeq(str, 1, IndexOf(str, sep) - 1)>>
            \o strings_Split(SubSeq(str, IndexOf(str, sep) + 1, Len(str)), sep)

\* strings.Trim(str, cutset)
strings_Trim(str, cutset) ==
    LET kept == {i \in DOMAIN str : str[i] \notin cutset}
    IN  IF kept = {}
        THEN <<>>
        ELSE SubSeq(str, CHOOSE i \in kept : \A j \in kept : i <= j,
                         CHOOSE i \in kept : \A j \in kept : i >= j)

\* the entries the loop of Write prints for the lines from the i-th on
RECURSIVE PrintLines(_, _)
PrintLines(lines, i) ==
    IF i > Len(lines)
    THEN <<>>
    ELSE LET l == strings_Trim(lines[i], {Space, Tab})
         IN  (IF l # <<>> THEN <<l>> ELSE <<>>) \o PrintLines(lines, i + 1)

\* Logger.Write(p): the entries printed and (n, err)
Logger_Write(p) ==
    [printed |-> PrintLines(strings_Split(p, NewLine), 1), n |-> Len(p), err |-> NilError]

(***************************************************************************)
(* The HTTP client of the influxdb_v2 output.  A metric is its position in *)
(* the slice handed to Write and the value of its bucket tag ("none" when  *)
(* it has no such tag); removed tells that the copy that is sent has the   *)
(* tag removed.  A request is the bucket of its address and the metrics of *)
(* its body.  Time is counted in milliseconds.  An error is its kind:      *)
(* "nil", "api" (an APIError    *)
(* with its status code), "plain" (any other error), "write" (a            *)
(* WriteError with the kind of the error it wraps) and "blocked" (retry    *)
(* time has not elapsed).                                                  *)
(***************************************************************************)
NoWriteError ==
    [kind |-> "nil", status |-> 0, inner |-> "nil", success |-> <<>>, fatal |-> <<>>]

APIError(status) == [NoWriteError EXCEPT !.kind = "api", !.status = status]

PlainError == [NoWriteError EXCEPT !.kind = "plain"]

\* &wErr: internal.WriteError around err
WriteError(err, success, fatal) ==
    [kind |-> "write", status |-> err.status, inner |-> err.kind, success |-> success,
     fatal |-> fatal]

\* the server's answer to the k-th request of a Write call: the one answer
\* it is set to give out of turn, 413 for a body of more metrics than it
\* takes, 204 otherwise; status 0 stands for a request that gets no answer
Respond(server, k, body) ==
    IF k = server.faultAt
    THEN server.fault
    ELSE IF Len(body) > server.maxBody THEN 413 ELSE 204

defaultMaxWaitSeconds == 60

defaultMaxWaitRetryAfterSeconds == 10 * 60

\* a Retry-After header: absent, a text strconv.ParseFloat rejects, a number
\* (in milliseconds, an infinity being a number beyond every cap) or the
\* text NaN, which ParseFloat returns as the value NaN without an error
NoHeader == [kind |-> "absent", ms |-> 0]

Smaller(a, b) == IF a < b THEN a ELSE b

Larger(a, b) == IF a > b THEN a ELSE b

\* getRetryDuration(headers), in milliseconds.  With the value NaN math.Min
\* and math.Max return NaN, and the conversion of NaN to an integer is left
\* to the build: conv is the duration that results from it.
getRetryDuration(retryCount, header, conv) ==
    LET backoff == Smaller((retryCount * retryCount * 1000) \div 40,
                           defaultMaxWaitSeconds * 1000)
        retryAfterHeader ==
            IF header.kind = "absent"
            THEN 0
            ELSE IF header.kind = "invalid"
            THEN Smaller(10 * 1000, defaultMaxWaitRetryAfterSeconds * 1000)
            ELSE Smaller(header.ms, defaultMaxWaitRetryAfterSeconds * 1000)
    IN  IF header.kind = "nan" THEN conv ELSE Larger(backoff, retryAfterHeader)

\* writeBatch: the error, the request if one was sent, and the retry state.
\* The serializer is given no limit and serializes every metric; nothing is
\* sent for an empty body.
writeBatch(st, bucket, metrics, server, k, now) ==
    LET status == Respond(server, k, metrics)
        request == <<[bucket |-> bucket, metrics |-> metrics]>>
    IN  IF metrics = <<>>
        THEN [err |-> NoWriteError, sent |-> <<>>, st |-> st]
        ELSE IF status = 0
        THEN [err |-> PlainError, sent |-> request, st |-> st]
        ELSE IF status \in {204, 200, 201, 202, 206, 207, 208}
        THEN [err |-> NoWriteError, sent |-> request, st |-> [st EXCEPT !.retryCount = 0]]
        ELSE IF status = 413
        THEN [err |-> APIError(status), sent |-> request, st |-> st]
        ELSE IF status \in {400, 422, 406}
        THEN [err |-> NoWriteError, sent |-> request, st |-> st]
        ELSE IF status \in {401, 403}
        THEN [err |-> PlainError, sent |-> request, st |-> st]
        ELSE IF status \in {429, 503, 502, 504}
        THEN [err |-> PlainError, sent |-> request,
              st |-> [retryCount |-> st.retryCount + 1,
                      retryTime |-> now + getRetryDuration(st.retryCount + 1,
                                                           server.retryAfter, server.conv)]]
        ELSE IF status \in 400..499
        THEN [err |-> NoWriteError, sent |-> request, st |-> st]
        ELSE [err |-> APIError(status), sent |-> request, st |-> st]

\* Faulty variant of splitAndWriteBatch: the second half is written first.
splitAndWriteBatch_SecondFirst(st, bucket, metrics, server, k, now) ==
    LET midpoint == Len(metrics) \div 2
        first == writeBatch(st, bucket, SubSeq(metrics, midpoint + 1, Len(metrics)), server, k, now)
        second == writeBatch(first.st, bucket, SubSeq(metrics, 1, midpoint), server,
                             k + Len(first.sent), now)
    IN  IF first.err.kind # "nil"
        THEN [err |-> first.err, sent |-> first.sent, st |-> first.st]
        ELSE [err |-> second.err, sent |-> first.sent \o second.sent, st |-> second.st]

\* splitAndWriteBatch: the requests of the two halves follow the k - 1
\* requests sent before
splitAndWriteBatch(st, bucket, metrics, server, k, now) ==
    LET midpoint == Len(metrics) \div 2
        first == writeBatch(st, bucket, SubSeq(metrics, 1, midpoint), server, k, now)
        second == writeBatch(first.st, bucket, SubSeq(metrics, midpoint + 1, Len(metrics)),
                             server, k + Len(first.sent), now)
    IN  IF first.err.kind # "nil"
        THEN [err |-> first.err, sent |-> first.sent, st |-> first.st]
        ELSE [err |-> second.err, sent |-> first.sent \o second.sent, st |-> second.st]

\* the bucket Write sorts a metric into
BucketOf(c, m) == IF m.tag = "none" THEN c.Bucket ELSE m.tag

\* the metric Write puts into its batch: a copy without the tag if the tag
\* is there and to be excluded
Batched(c, m) ==
    IF m.tag # "none" /\ c.ExcludeBucketTag THEN [m EXCEPT !.removed = TRUE] ELSE m

\* batches: the keys and batches[bucket]
BatchKeys(c, metrics) ==
    IF c.BucketTag = ""
    THEN {c.Bucket}
    ELSE {BucketOf(c, metrics[i]) : i \in DOMAIN metrics}

Batch(c, metrics, bucket) ==
    IF c.BucketTag = ""
    THEN metrics
    ELSE LET mine == SelectSeq(metrics, LAMBDA m : BucketOf(c, m) = bucket)
         IN  [i \in DOMAIN mine |-> Batched(c, mine[i])]

\* batchIndices[bucket]: with a bucket tag every index is appended to the
\* entry of c.Bucket
BatchIndices(c, metrics, bucket) ==
    IF c.BucketTag = "" \/ bucket = c.Bucket
    THEN [i \in DOMAIN metrics |-> i - 1]
    ELSE <<>>

\* the loop of Write over the batches, taken in the given order of the map,
\* from the i-th on
RECURSIVE WriteFrom(_, _, _, _, _, _, _, _, _)
WriteFrom(c, st, metrics, order, i, server, now, sent, success) ==
    IF i > Len(order)
    THEN [err |-> NoWriteError, sent |-> sent, st |-> st]
    ELSE LET bucket == order[i]
             r == writeBatch(st, bucket, Batch(c, metrics, bucket), server, Len(sent) + 1, now)
             split == splitAndWriteBatch(r.st, c.Bucket, metrics, server,
                                         Len(sent) + Len(r.sent) + 1, now)
         IN  IF r.err.kind = "nil"
             THEN WriteFrom(c, r.st, metrics, order, i + 1, server, now, sent \o r.sent,
                            success \o BatchIndices(c, metrics, bucket))
             ELSE IF r.err.kind = "api" /\ r.err.status = 413
             THEN [err |-> split.err, sent |-> sent \o r.sent \o split.sent, st |-> split.st]
             ELSE IF r.err.kind = "api"
             THEN [err |-> WriteError(r.err, success, BatchIndices(c, metrics, bucket)),
                   sent |-> sent \o r.sent, st |-> r.st]
             ELSE [err |-> WriteError(r.err, success, <<>>), sent |-> sent \o r.sent,
                   st |-> r.st]

\* Faulty variant of httpClient.Write: a Write at the retry time itself is
\* turned away.
httpClient_Write_BlockedAtRetryTime(c, st, metrics, order, server, now) ==
    IF st.retryTime >= now /\ st.retryCount > 0
    THEN [err |-> [NoWriteError EXCEPT !.kind = "blocked"], sent |-> <<>>, st |-> st]
    ELSE WriteFrom(c, st, metrics, order, 1, server, now, <<>>, <<>>)

\* httpClient.Write with the batches taken in the given order
httpClient_Write(c, st, metrics, order, server, now) ==
    IF st.retryTime > now
    THEN [err |-> [NoWriteError EXCEPT !.kind = "blocked"], sent |-> <<>>, st |-> st]
    ELSE WriteFrom(c, st, metrics, order, 1, server, now, <<>>, <<>>)

(***************************************************************************)
(* State.                                                                  *)
(***************************************************************************)
VARIABLES
    \* codec: what is converted, how far, the operands and the results
    cjob, cstep, hostMetric, wireMsg, encErr, backMetric, hostErr, wireErr, backErr,
    \* bridge: the checksum and the configuration text the instance is
    \* created with, how far its creation got and the error it returned
    checksum, wconfig, phase, createErr,
    \* the subprocess, how its handshake ended, the settings applied to the
    \* plugin and the remote calls it received
    proc, handshakeResult, applied, received,
    \* the host: the accumulator, the last operation on the Wrapper with
    \* its outcome, the number of operations, whether a Wrapper.Init has
    \* succeeded, whether the host panicked
    sink, last, ncalls, initOK, panicked,
    \* discovery: what is run, how far, the checksum file or the root it is
    \* run on and the results
    djob, dstep, dfile, droot, dread, dres,
    \* instances: the factory NewInputWrapper returned, the subprocesses
    \* started so far, the Wrappers, the launch in flight and whether the
    \* host is up
    factory, procs, wrappers, launch, host,
    \* stderr relay: the bytes the child writes, how many of them have been
    \* handed to Write, and the host log
    stream, written, hostLog,
    \* influxdb_v2 output: the client's settings, the server it writes to,
    \* the metrics handed to Write, the client's retry state, the time, the
    \* last Write with its outcome and the number of Write calls
    ocfg, oserver, ometrics, oretry, onow, olast, ocount,
    \* influxdb_v2 plugin: its settings, the servers of its clients, the
    \* retry state of every client, the metrics handed to Write, the last
    \* Write with its outcome and the number of Write calls
    icfg, iservers, iretry, imetrics, ilast, icount,
    \* rate limiter: its fields, the account of what was accepted per period
    \* and the last call: whether its time lay outside the period the limiter
    \* was in, what remained before it and whether it changed a field
    limiter, ledger, llast,
    \* concurrent Gather: what the server answered to every caller, how far
    \* every caller's Gather got with its local variables, the accumulator
    \* the callers share and the caller that added each of its metrics
    gresp, gframe, gsink, gowner

cvars == <<cjob, cstep, hostMetric, wireMsg, encErr, backMetric, hostErr, wireErr, backErr>>

bvars == <<checksum, wconfig, phase, createErr, proc, handshakeResult, applied, received,
           sink, last, ncalls, initOK, panicked>>

dvars == <<djob, dstep, dfile, droot, dread, dres>>

hvars == <<factory, procs, wrappers, launch, host>>

\* what the codec, the bridge of one instance and discovery leave alone
lvars == <<stream, written, hostLog>>

ovars == <<ocfg, oserver, ometrics, oretry, onow, olast, ocount>>

ivars == <<icfg, iservers, iretry, imetrics, ilast, icount>>

mvars == <<limiter, ledger, llast>>

gvars == <<gresp, gframe, gsink, gowner>>

yvars == <<ivars, mvars, gvars>>

xvars == <<hvars, lvars, ovars, yvars>>

vars == <<cvars, bvars, dvars, xvars>>

NoOperation ==
    [op |-> "none", issued |-> <<>>, results |-> <<>>, delivered |-> <<>>, served |-> <<>>,
     ret |-> NilError, before |-> <<>>, collected |-> <<>>, resp |-> <<>>, replied |-> FALSE,
     remoteOK |-> FALSE, initBefore |-> FALSE, text |-> "",
     prev |-> [op |-> "none", failed |-> FALSE]]

\* no plugin instance
BridgeIdle ==
    /\ checksum = <<>>
    /\ wconfig = <<>>
    /\ phase = "off"
    /\ createErr = NilError
    /\ proc = "none"
    /\ handshakeResult = "none"
    /\ applied = {}
    /\ received = <<>>
    /\ sink = <<>>
    /\ last = NoOperation
    /\ ncalls = 0
    /\ initOK = FALSE
    /\ panicked = FALSE

AbsentFile == [state |-> "absent", lines |-> <<>>, scanErr |-> FALSE]

AbsentDir ==
    [stat |-> "absent", link |-> FALSE, readable |-> TRUE, checksums |-> AbsentFile,
     entries |-> <<>>]

CategorySet == {Categories[i] : i \in DOMAIN Categories}

NoRoot == [c \in CategorySet |-> AbsentDir]

\* no discovery
DiscoverIdle ==
    /\ djob = "none"
    /\ dstep = "idle"
    /\ dfile = AbsentFile
    /\ droot = NoRoot
    /\ dread = NoChecksums
    /\ dres = NoDiscovery

NoLaunch ==
    [phase |-> "idle", clock |-> 0, pid |-> 0, client |-> NoClient, outcome |-> "none",
     handshake |-> "none", err |-> NilError]

NoFactory == [built |-> FALSE, checksum |-> <<>>, config |-> <<>>]

\* no factory, no instance
HostIdle ==
    /\ factory = NoFactory
    /\ procs = <<>>
    /\ wrappers = <<>>
    /\ launch = NoLaunch
    /\ host = "up"

\* nothing written to stderr
LoggerIdle ==
    /\ stream = <<>>
    /\ written = 0
    /\ hostLog = <<>>

NoRetry == [retryCount |-> 0, retryTime |-> 0]

NoServer ==
    [maxBody |-> 0, faultAt |-> 0, fault |-> 204, retryAfter |-> NoHeader, conv |-> 0]

NoHTTPClient == [Bucket |-> "", BucketTag |-> "", ExcludeBucketTag |-> FALSE]

NoWrite ==
    [order |-> <<>>, sent |-> <<>>, answers |-> <<>>, err |-> NoWriteError,
     before |-> NoRetry, at |-> 0]

\* no output
OutputIdle ==
    /\ ocfg = NoHTTPClient
    /\ oserver = NoServer
    /\ ometrics = <<>>
    /\ oretry = NoRetry
    /\ onow = 0
    /\ olast = NoWrite
    /\ ocount = 0

NoPluginWrite == [perm |-> <<>>, tried |-> <<>>, failed |-> FALSE, at |-> 0]

\* no output plugin
InfluxIdle ==
    /\ icfg = NoHTTPClient
    /\ iservers = <<>>
    /\ iretry = <<>>
    /\ imetrics = <<>>
    /\ ilast = NoPluginWrite
    /\ icount = 0

NoLimiter == [limit |-> 0, period |-> 0, periodStart |-> 0, remaining |-> 0]

NoLedger == [mode |-> "batch", now |-> 0, first |-> 0, sums |-> <<>>]

NoLimiterCall ==
    [op |-> "none", t |-> 0, used |-> 0, outside |-> FALSE, was |-> 0, changed |-> FALSE]

\* no rate limiter
LimiterIdle ==
    /\ limiter = NoLimiter
    /\ ledger = NoLedger
    /\ llast = NoLimiterCall

\* the callers of a Gather on one Wrapper
Callers == {"a", "b"}

NoResponse == [answered |-> FALSE, replied |-> FALSE, failed |-> FALSE, Metric |-> <<>>]

NoFrame == [pc |-> "idle", env |-> <<>>, metrics |-> <<>>, err |-> NilError, i |-> 0,
            ret |-> NilError]

\* no Gather in flight
ConcurrentIdle ==
    /\ gresp = [c \in Callers |-> NoResponse]
    /\ gframe = [c \in Callers |-> NoFrame]
    /\ gsink = <<>>
    /\ gowner = <<>>

RestIdle == InfluxIdle /\ LimiterIdle /\ ConcurrentIdle

(***************************************************************************)
(* Inputs of the codec.                                                    *)
(***************************************************************************)
FieldKeys == {"value", "x", "y"}

HostValues ==
    {GoValue("int64", 42, "", FALSE), GoValue("uint64", 7, "", FALSE),
     GoValue("float64", 3, "", FALSE), GoValue("string", 0, "a", FALSE),
     GoValue("bool", 0, "", TRUE), GoValue("int32", 5, "", FALSE), Nil}

\* sequences of at most n distinct elements of S
UniqueSeqs(S, n) ==
    UNION {{q \in [1..k -> S] : \A i, j \in 1..k : i # j => q[i] # q[j]} : k \in 0..n}

\* field lists as a telegraf metric holds them: no key twice
HostFieldLists ==
    UNION {{[i \in 1..Len(ks) |-> [Key |-> ks[i], Value |-> vs[i]]] :
               vs \in [1..Len(ks) -> HostValues]} : ks \in UniqueSeqs(FieldKeys, MaxFields)}

\* tag lists as a telegraf metric holds them: sorted by key, no key twice
HostTagLists ==
    {<<>>, <<[Key |-> "host", Value |-> "a"]>>,
     <<[Key |-> "host", Value |-> "a"], [Key |-> "region", Value |-> "b"]>>}

\* pre-epoch, the epoch, and one past the largest int64
HostTimes == {-1, 0, MaxNano + 1}

HostKinds == {"Counter", "Gauge", "Untyped", "Summary", "Histogram"}

Metric(name, tags, fields, tm, tp) ==
    [name |-> name, tags |-> tags, fields |-> fields, tm |-> tm, tp |-> tp]

EmptyMetric == Metric("", <<>>, <<>>, 0, "Untyped")

\* Every tag list, time and kind is combined with the field lists of at most
\* one field; the longer field lists go with one tag list, time and kind.
HostMetrics ==
    {Metric("cpu", tl, fl, tm, tp) :
        tl \in HostTagLists, fl \in {l \in HostFieldLists : Len(l) <= 1},
        tm \in HostTimes, tp \in HostKinds}
    \cup {Metric("cpu", <<[Key |-> "host", Value |-> "a"]>>, fl, 0, "Counter") :
             fl \in {l \in HostFieldLists : Len(l) > 1}}

\* what a peer can put into a Field: a type with the slot it set, if any
WireFieldContents ==
    {<<FieldType_Int64, WireValue("ValueI64", 42, "", FALSE)>>,
     <<FieldType_String, WireValue("ValueString", 0, "a", FALSE)>>,
     <<FieldType_Bool, NoWireValue>>,
     <<FieldType_Unrecognized, NoWireValue>>,
     <<FieldType_Unrecognized, WireValue("ValueI64", 42, "", FALSE)>>}

WireFieldLists ==
    UNION {{[i \in 1..Len(ks) |-> [Key |-> ks[i], Type |-> cs[i][1], Value |-> cs[i][2]]] :
               cs \in [1..Len(ks) -> WireFieldContents]} : ks \in UniqueSeqs(FieldKeys, MaxFields)}

WireTagLists ==
    HostTagLists \cup {<<[Key |-> "region", Value |-> "b"], [Key |-> "host", Value |-> "a"]>>}

WireValueTypes == {ValueType_Zero, ValueType_Counter, ValueType_Histogram, "unrecognized"}

WireMessage(name, tags, fields, tm, tp) ==
    [Name |-> name, Tags |-> tags, Fields |-> fields, Time |-> tm, Type |-> tp]

WireMessages ==
    {WireMessage("cpu", tl, fl, tm, tp) :
        tl \in WireTagLists, fl \in {l \in WireFieldLists : Len(l) <= 1},
        tm \in {-1, 0}, tp \in WireValueTypes}
    \cup {WireMessage("cpu", <<[Key |-> "host", Value |-> "a"]>>, fl, 0, ValueType_Counter) :
             fl \in {l \in WireFieldLists : Len(l) > 1}}

HostErrors == {NilError, errors_New(<<>>), errors_New(<<"boom">>)}

WireErrors ==
    {NilErrorMessage, ErrorMessage(FALSE, <<>>), ErrorMessage(FALSE, <<"boom">>),
     ErrorMessage(TRUE, <<>>), ErrorMessage(TRUE, <<"boom">>)}

(***************************************************************************)
(* The codec applied to its inputs: a metric or an error is encoded and    *)
(* the message decoded again; a message of a peer is decoded.              *)
(***************************************************************************)
CodecIdle ==
    /\ hostMetric = EmptyMetric
    /\ wireMsg = EmptyMessage
    /\ encErr = FALSE
    /\ backMetric = EmptyMetric
    /\ hostErr = NilError
    /\ wireErr = NilErrorMessage
    /\ backErr = NilError

InitCodec ==
    /\ cjob \in {"metric", "wire", "error", "errmsg"}
    /\ cstep = IF cjob \in {"metric", "error"} THEN "input" ELSE "encoded"
    /\ hostMetric \in IF cjob = "metric" THEN HostMetrics ELSE {EmptyMetric}
    /\ wireMsg \in IF cjob = "wire" THEN WireMessages ELSE {EmptyMessage}
    /\ hostErr \in IF cjob = "error" THEN HostErrors ELSE {NilError}
    /\ wireErr \in IF cjob = "errmsg" THEN WireErrors ELSE {NilErrorMessage}
    /\ encErr = FALSE
    /\ backMetric = EmptyMetric
    /\ backErr = NilError
    /\ BridgeIdle
    /\ DiscoverIdle
    /\ HostIdle
    /\ RestIdle
    /\ LoggerIdle
    /\ OutputIdle

EncodeMetric ==
    /\ cjob = "metric" /\ cstep = "input"
    /\ LET r == ToMetricMessage(hostMetric)
       IN  /\ encErr' = r.err
           /\ wireMsg' = r.msg
    /\ cstep' = "encoded"
    /\ UNCHANGED <<cjob, hostMetric, backMetric, hostErr, wireErr, backErr>>
    /\ UNCHANGED bvars
    /\ UNCHANGED dvars
    /\ UNCHANGED xvars

DecodeMetric ==
    /\ cjob \in {"metric", "wire"} /\ cstep = "encoded" /\ ~encErr
    /\ backMetric' \in FromMetricMessage(wireMsg)
    /\ cstep' = "decoded"
    /\ UNCHANGED <<cjob, hostMetric, wireMsg, encErr, hostErr, wireErr, backErr>>
    /\ UNCHANGED bvars
    /\ UNCHANGED dvars
    /\ UNCHANGED xvars

EncodeError ==
    /\ cjob = "error" /\ cstep = "input"
    /\ wireErr' = ToErrorMessage(hostErr)
    /\ cstep' = "encoded"
    /\ UNCHANGED <<cjob, hostMetric, wireMsg, encErr, backMetric, hostErr, backErr>>
    /\ UNCHANGED bvars
    /\ UNCHANGED dvars
    /\ UNCHANGED xvars

DecodeError ==
    /\ cjob \in {"error", "errmsg"} /\ cstep = "encoded"
    /\ backErr' = FromErrorMessage(wireErr)
    /\ cstep' = "decoded"
    /\ UNCHANGED <<cjob, hostMetric, wireMsg, encErr, backMetric, hostErr, wireErr>>
    /\ UNCHANGED bvars
    /\ UNCHANGED dvars
    /\ UNCHANGED xvars

NextCodec == EncodeMetric \/ DecodeMetric \/ EncodeError \/ DecodeError

SpecCodec == InitCodec /\ [][NextCodec]_vars

(***************************************************************************)
(* Properties of the codec (checked under SpecCodec).                      *)
(***************************************************************************)
AllSupported(metric) ==
    \A i \in DOMAIN metric.fields : metric.fields[i].Value.kind \in SupportedKinds

EntrySet(entries) == {entries[i] : i \in DOMAIN entries}

RoundTripDone == cjob = "metric" /\ cstep = "decoded" /\ AllSupported(hostMetric)

C2_UnsupportedFieldDropped ==
    (cjob = "metric" /\ cstep # "input") =>
        /\ ~encErr
        /\ \A i \in DOMAIN hostMetric.fields :
              IF hostMetric.fields[i].Value.kind \in EncodableKinds
              THEN \E j \in DOMAIN wireMsg.Fields :
                      /\ wireMsg.Fields[j].Key = hostMetric.fields[i].Key
                      /\ wireMsg.Fields[j].Type \in KnownFieldTypes
              ELSE \A j \in DOMAIN wireMsg.Fields :
                      wireMsg.Fields[j].Key # hostMetric.fields[i].Key

\* the value FromMetricMessage is to give a field of a known type of the
\* messages of WireMessages
ExpectedValue(f) ==
    CASE f.Type = FieldType_Int64 -> GoValue("int64", 42, "", FALSE)
      [] f.Type = FieldType_String -> GoValue("string", 0, "a", FALSE)
      [] f.Type = FieldType_Bool -> GoValue("bool", 0, "", FALSE)

ExpectedKind(t) ==
    CASE t = ValueType_Counter -> "Counter"
      [] t = ValueType_Histogram -> "Histogram"
      [] OTHER -> "Untyped"

\* C3: decoding a message never fails; a field with an unrecognized type is
\* absent from the decoded metric, every field of a known type is there once
\* with its value, and name, tags, time and kind are those of the message.
C3_UnrecognizedFieldAbsent ==
    /\ (cjob = "wire" /\ cstep = "encoded") => FromMetricMessage(wireMsg) # {}
    /\ (cjob = "wire" /\ cstep = "decoded") =>
          /\ backMetric.name = wireMsg.Name
          /\ backMetric.tm = wireMsg.Time
          /\ backMetric.tp = ExpectedKind(wireMsg.Type)
          /\ Len(backMetric.tags) = Len(wireMsg.Tags)
          /\ EntrySet(backMetric.tags) = EntrySet(wireMsg.Tags)
          /\ \A i \in DOMAIN wireMsg.Fields :
                IF wireMsg.Fields[i].Type = FieldType_Unrecognized
                THEN wireMsg.Fields[i].Key \notin KeysOf(backMetric.fields)
                ELSE [Key |-> wireMsg.Fields[i].Key, Value |-> ExpectedValue(wireMsg.Fields[i])]
                        \in EntrySet(backMetric.fields)
          /\ Len(backMetric.fields) =
                Cardinality({i \in DOMAIN wireMsg.Fields :
                                wireMsg.Fields[i].Type # FieldType_Unrecognized})

\* a decoded message of two fields, one of an unrecognized type whose int64
\* slot is set, of which only the other is in the metric
C3_Witness ==
    /\ cjob = "wire" /\ cstep = "decoded"
    /\ Len(wireMsg.Fields) = 2
    /\ wireMsg.Fields[1].Type = FieldType_Unrecognized
    /\ wireMsg.Fields[1].Value.slot = "ValueI64"
    /\ wireMsg.Fields[2].Type = FieldType_Int64
    /\ Len(backMetric.fields) = 1

\* C4: ToErrorMessage(nil) leaves the is-error flag unset; FromErrorMessage
\* returns nil exactly when the flag is unset, also for an absent message; a
\* non-nil error comes back non-nil with the same message, the empty one too.
C4_ErrorChannel ==
    /\ (cjob = "error" /\ cstep # "input" /\ hostErr.isNil) =>
          (wireErr.present /\ ~wireErr.IsError)
    /\ (cjob \in {"error", "errmsg"} /\ cstep = "decoded") =>
          (backErr.isNil <=> ~(wireErr.present /\ wireErr.IsError))
    /\ (cjob = "error" /\ cstep = "decoded" /\ ~hostErr.isNil) =>
          (~backErr.isNil /\ backErr.msg = hostErr.msg)

\* an error with an empty message that went through both conversions
C4_Witness ==
    /\ cjob = "error" /\ cstep = "decoded"
    /\ ~hostErr.isNil /\ hostErr.msg = <<>>
    /\ wireErr.IsError

(***************************************************************************)
(* The bridge: one plugin instance is created and the host calls the       *)
(* operations of its Wrapper.                                              *)
(***************************************************************************)
MaxCalls == 2

MaxGather == 2

\* no checksum, the digest of the executable (in mixed case), another
\* digest, an odd number of digits, no hexadecimal digits
Checksums == {<<>>, <<"A", "a">>, <<"0", "0">>, <<"a">>, <<"z", "z">>}

\* one line that ends without a line break; a first line that reads like a
\* setting, then one setting; a first line that is no TOML, then a setting
\* and an unknown setting; a header line, then text that is no TOML
Configs ==
    {<<>>, <<"k">>, <<"l", NewLine, "k", NewLine>>, <<"!", NewLine, "k", NewLine, "j">>,
     <<"h", NewLine, "!">>}

PluginErrors == {NilError, errors_New(<<"boom">>)}

GatherPool ==
    {Metric("cpu", <<>>, <<[Key |-> "value", Value |-> GoValue("int64", 42, "", FALSE)]>>,
            0, "Counter"),
     Metric("mem", <<[Key |-> "host", Value |-> "a"]>>,
            <<[Key |-> "x", Value |-> GoValue("float64", 3, "", FALSE)]>>, 0, "Gauge")}

\* the metrics of one Gather: at most MaxGather, the two metrics of the pool
\* taking turns, either one first
Alternating(first, second, n) == [i \in 1..n |-> IF i % 2 = 1 THEN first ELSE second]

GatherLists ==
    {Alternating(pair[1], pair[2], n) :
        pair \in {p \in GatherPool \X GatherPool : p[1] # p[2]}, n \in 0..MaxGather}

\* what the plugin's Gather returns and what the transport does: any list
\* of metrics over a working transport, and a short list, an error or
\* both over every transport
GatherEnvs ==
    [net : {"ok"}, metrics : GatherLists, err : {NilError}]
    \cup [net : NetOutcomes, metrics : {<<>>} \cup [1..1 -> GatherPool],
          err : {NilError, errors_New(<<"boom">>)}]
    \cup [net : {"ok"}, metrics : {<<>>}, err : {errors_New(<<>>)}]

InitEnvs ==
    [net1 : NetOutcomes, net2 : NetOutcomes, partial : {{}, PluginSettings},
     initErr : PluginErrors]

\* Every checksum goes with one configuration, every configuration with no
\* checksum.
Instances ==
    (Checksums \X {<<"l", NewLine, "k", NewLine>>}) \cup ({<<>>} \X Configs)

server_Description == "a plugin"

server_SampleConfig == "k = 1"

Init ==
    /\ cjob = "none"
    /\ cstep = "idle"
    /\ CodecIdle
    /\ \E instance \in Instances :
           /\ checksum = instance[1]
           /\ wconfig = instance[2]
    /\ phase = "new"
    /\ createErr = NilError
    /\ proc = "none"
    /\ handshakeResult = "none"
    /\ applied = {}
    /\ received = <<>>
    /\ sink = <<>>
    /\ last = NoOperation
    /\ ncalls = 0
    /\ initOK = FALSE
    /\ panicked = FALSE
    /\ DiscoverIdle
    /\ HostIdle
    /\ RestIdle
    /\ LoggerIdle
    /\ OutputIdle

\* the creator is run: SetupReceiver, then NewWrapper
Create ==
    /\ phase = "new"
    /\ \E env \in LaunchEnvs :
          LET r == Creator("ext", wconfig, checksum, env)
          IN  /\ phase' = IF r.ok THEN "created" ELSE "failed"
              /\ createErr' = r.err
              /\ proc' = r.proc
              /\ handshakeResult' = r.handshake
    /\ UNCHANGED <<checksum, wconfig, applied, received, sink, last, ncalls, initOK, panicked>>
    /\ UNCHANGED cvars
    /\ UNCHANGED dvars
    /\ UNCHANGED xvars

CanCall == phase = "created" /\ ~panicked /\ ncalls < MaxCalls

\* the operation before the one that is run, and whether it failed
Prev == [op |-> last.op, failed |-> (~last.ret.isNil \/ panicked)]

WrapperInit ==
    /\ CanCall
    /\ \E env \in InitEnvs :
          LET r == Wrapper_Init(wconfig, proc, applied, env)
          IN  /\ last' = [NoOperation EXCEPT !.op = "Init", !.issued = r.issued,
                                             !.results = r.results, !.ret = r.ret,
                                             !.delivered = r.received,
                                             !.served = r.served,
                                             !.prev = Prev,
                                             !.before = sink, !.initBefore = initOK]
              /\ received' = received \o r.received
              /\ applied' = r.applied
              /\ initOK' = (initOK \/ r.ret.isNil)
    /\ ncalls' = ncalls + 1
    /\ UNCHANGED <<checksum, wconfig, phase, createErr, proc, handshakeResult, sink, panicked>>
    /\ UNCHANGED cvars
    /\ UNCHANGED dvars
    /\ UNCHANGED xvars

WrapperGather ==
    /\ CanCall
    /\ \E env \in GatherEnvs :
          \E g \in externalInputClient_Gather(proc, env) :
             LET r == Wrapper_Gather(sink, g)
             IN  /\ last' = [NoOperation EXCEPT !.op = "Gather",
                                                !.issued = g.call.issued,
                                                !.results = <<g.err>>, !.ret = r.ret,
                                                !.delivered = g.call.delivered,
                                                !.served = g.call.served,
                                                !.collected = env.metrics,
                                                !.replied = g.replied,
                                                !.prev = Prev,
                                                !.before = sink, !.resp = g.resp,
                                                !.remoteOK = (g.replied /\ g.err.isNil),
                                                !.initBefore = initOK]
                 /\ sink' = r.acc
                 /\ received' = received \o g.call.delivered
                 /\ proc' = IF r.kill THEN "killed" ELSE proc
    /\ ncalls' = ncalls + 1
    /\ UNCHANGED <<checksum, wconfig, phase, createErr, handshakeResult, applied,
                   initOK, panicked>>
    /\ UNCHANGED cvars
    /\ UNCHANGED dvars
    /\ UNCHANGED xvars

\* Wrapper.Description: the stub panics on a transport error
WrapperDescription ==
    /\ CanCall
    /\ \E net \in NetOutcomes :
          /\ last' = [NoOperation EXCEPT !.op = "Description",
                                         !.issued = <<Call("Description", <<>>)>>,
                                         !.prev = Prev,
                                         !.replied = Replied(proc, net),
                                         !.delivered = IF Delivered(proc, net)
                                                       THEN <<"Description">> ELSE <<>>,
                                         !.before = sink, !.initBefore = initOK,
                                         !.remoteOK = Replied(proc, net),
                                         !.text = IF Replied(proc, net)
                                                  THEN server_Description ELSE ""]
          /\ received' = received \o (IF Delivered(proc, net) THEN <<"Description">> ELSE <<>>)
          /\ panicked' = ~Replied(proc, net)
    /\ ncalls' = ncalls + 1
    /\ UNCHANGED <<checksum, wconfig, phase, createErr, proc, handshakeResult, applied, sink,
                   initOK>>
    /\ UNCHANGED cvars
    /\ UNCHANGED dvars
    /\ UNCHANGED xvars

\* Wrapper.SampleConfig: the stub panics on a transport error
WrapperSampleConfig ==
    /\ CanCall
    /\ \E net \in NetOutcomes :
          /\ last' = [NoOperation EXCEPT !.op = "SampleConfig",
                                         !.issued = <<Call("SampleConfig", <<>>)>>,
                                         !.prev = Prev,
                                         !.replied = Replied(proc, net),
                                         !.delivered = IF Delivered(proc, net)
                                                       THEN <<"SampleConfig">> ELSE <<>>,
                                         !.before = sink, !.initBefore = initOK,
                                         !.remoteOK = Replied(proc, net),
                                         !.text = IF Replied(proc, net)
                                                  THEN server_SampleConfig ELSE ""]
          /\ received' = received \o (IF Delivered(proc, net) THEN <<"SampleConfig">> ELSE <<>>)
          /\ panicked' = ~Replied(proc, net)
    /\ ncalls' = ncalls + 1
    /\ UNCHANGED <<checksum, wconfig, phase, createErr, proc, handshakeResult, applied, sink,
                   initOK>>
    /\ UNCHANGED cvars
    /\ UNCHANGED dvars
    /\ UNCHANGED xvars

\* the plugin process exits on its own
ProcessExit ==
    /\ phase = "created"
    /\ proc = "running"
    /\ proc' = "exited"
    /\ UNCHANGED <<checksum, wconfig, phase, createErr, handshakeResult, applied, received,
                   sink, last, ncalls, initOK, panicked>>
    /\ UNCHANGED cvars
    /\ UNCHANGED dvars
    /\ UNCHANGED xvars

Next ==
    \/ Create
    \/ WrapperInit
    \/ WrapperGather
    \/ WrapperDescription
    \/ WrapperSampleConfig
    \/ ProcessExit

Spec == Init /\ [][Next]_vars

(***************************************************************************)
(* Discovery applied to its inputs: readChecksums to a checksum file,      *)
(* Discover to a root.                                                     *)
(***************************************************************************)
MaxLines == 2

\* binary mode, text mode, two spaces before the asterisk, the name of the
\* first line with another digest, lines that start with "#" (with and
\* without a space), one field, nothing behind the space, an empty line
ManifestLines ==
    {<<"d", Space, "*", "a">>, <<"e", Space, Space, "b">>, <<"d", Space, Space, "*", "a">>,
     <<"e", Space, "*", "a">>, <<"#", Space, "c", Space, "a">>, <<"#", "c">>, <<"d">>,
     <<"d", Space>>, <<>>}

File(lines, scanErr) == [state |-> "present", lines |-> lines, scanErr |-> scanErr]

Files ==
    {AbsentFile, [AbsentFile EXCEPT !.state = "denied"]}
    \cup {File(ls, FALSE) : ls \in UNION {[1..k -> ManifestLines] : k \in 0..MaxLines}}
    \cup {File(ls, TRUE) : ls \in {<<>>, <<<<"d", Space, "*", "a">>>>, <<<<"d">>>>}}

Entry(name, mode, exec, tmode, texec) ==
    [name |-> name, in |-> "", lstat |-> TRUE, mode |-> mode, exec |-> exec, readable |-> TRUE,
     tmode |-> tmode, texec |-> texec]

Executable(name) == Entry(name, "file", TRUE, "none", FALSE)

EntryLists ==
    {<<>>, <<Executable("a")>>,
     <<Executable("a"), Entry("b", "file", FALSE, "none", FALSE),
       Entry(ChecksumFilename, "file", FALSE, "none", FALSE),
       Entry("d", "dir", TRUE, "none", FALSE)>>,
     <<Entry("p", "special", TRUE, "none", FALSE), Entry("s", "symlink", TRUE, "file", TRUE),
       Entry("t", "symlink", TRUE, "broken", FALSE), Entry("u", "symlink", TRUE, "dir", TRUE),
       Entry("v", "symlink", TRUE, "file", FALSE)>>}

Dir(checksums, entries) == [AbsentDir EXCEPT !.stat = "dir", !.checksums = checksums, !.entries = entries]

OneLineFile == File(<<<<"d", Space, "*", "a">>>>, FALSE)

\* an entry of the subdirectory d
Inside(d, e) == [e EXCEPT !.in = d]

\* a directory with read but without search permission: its entries are
\* listed, os.Lstat of them fails
NoSearch(entries) == [k \in DOMAIN entries |-> [entries[k] EXCEPT !.lstat = FALSE]]

\* executables below a subdirectory, one of them with the name of one above;
\* a subdirectory that cannot be listed; entries that cannot be examined
TreeLists ==
    {<<Executable("a"), Entry("d", "dir", TRUE, "none", FALSE),
       Inside("d", Executable("a")), Inside("d", Executable("e"))>>,
     <<[Entry("d", "dir", TRUE, "none", FALSE) EXCEPT !.readable = FALSE],
       Inside("d", Executable("e")), Executable("f")>>,
     NoSearch(<<Executable("a")>>),
     <<Executable("a"), Entry("d", "dir", TRUE, "none", FALSE)>>
        \o NoSearch(<<Inside("d", Executable("e"))>>) \o <<Executable("f")>>}

\* Every checksum file goes with one list of entries, every list of entries
\* with no checksum file and with a one-line file; a category path that is
\* a symbolic link to a directory and a directory that cannot be listed
\* hold one executable.
InputDirs ==
    {AbsentDir, [AbsentDir EXCEPT !.stat = "error"], [AbsentDir EXCEPT !.stat = "file"]}
    \cup {Dir(f, <<Executable("a")>>) : f \in Files}
    \cup {Dir(f, el) : f \in {AbsentFile, OneLineFile}, el \in EntryLists \cup TreeLists}
    \cup {[Dir(f, <<Executable("a")>>) EXCEPT !.link = TRUE] : f \in {AbsentFile, OneLineFile}}
    \cup {[Dir(AbsentFile, <<Executable("a")>>) EXCEPT !.readable = FALSE]}

OtherDirs ==
    {AbsentDir, [AbsentDir EXCEPT !.stat = "error"], Dir(AbsentFile, <<Executable("b")>>),
     Dir(File(<<<<"d">>>>, FALSE), <<Executable("b")>>),
     Dir(File(<<<<"e", Space, Space, "b">>>>, FALSE), <<Executable("b")>>)}

Roots ==
    {[c \in CategorySet |->
         CASE c = "inputs" -> d1
           [] c = "outputs" -> d2
           [] c = "processors" -> d3
           [] OTHER -> d4] :
        d1 \in InputDirs, d2 \in OtherDirs, d3 \in {AbsentDir, [AbsentDir EXCEPT !.stat = "file"]},
        d4 \in {AbsentDir, Dir(AbsentFile, <<>>)}}

InitDiscover ==
    /\ djob \in {"read", "discover"}
    /\ dstep = "input"
    /\ dfile \in IF djob = "read" THEN Files ELSE {AbsentFile}
    /\ droot \in IF djob = "discover" THEN Roots ELSE {NoRoot}
    /\ dread = NoChecksums
    /\ dres = NoDiscovery
    /\ cjob = "none"
    /\ cstep = "idle"
    /\ CodecIdle
    /\ BridgeIdle
    /\ HostIdle
    /\ RestIdle
    /\ LoggerIdle
    /\ OutputIdle

ReadChecksums ==
    /\ djob = "read" /\ dstep = "input"
    /\ dread' = readChecksums(dfile)
    /\ dstep' = "done"
    /\ UNCHANGED <<djob, dfile, droot, dres>>
    /\ UNCHANGED cvars
    /\ UNCHANGED bvars
    /\ UNCHANGED xvars

RunDiscover ==
    /\ djob = "discover" /\ dstep = "input"
    /\ dres' = Discover(droot)
    /\ dstep' = "done"
    /\ UNCHANGED <<djob, dfile, droot, dread>>
    /\ UNCHANGED cvars
    /\ UNCHANGED bvars
    /\ UNCHANGED xvars

NextDiscover == ReadChecksums \/ RunDiscover

SpecDiscover == InitDiscover /\ [][NextDiscover]_vars

(***************************************************************************)
(* Instances of one external plugin.  NewInputWrapper returns a factory;   *)
(* every call of the creator it makes sets up a client of its own for      *)
(* exec.Command(path) and hands it to NewWrapper, whose client.Client()    *)
(* starts the subprocess and waits for its handshake line until the start  *)
(* timeout of the client.  The clock of a launch counts the seconds since  *)
(* the subprocess was started.                                             *)
(***************************************************************************)
MaxInstances == 2

HostChecksums == {<<>>, <<"A", "a">>, <<"0", "0">>, <<"a">>}

\* the path NewInputWrapper launches for a name, filepath.Join(root,
\* "inputs", name), from the root on
PluginPath(name) == <<"inputs", name>>

\* exec.Command(path) of one creator call, started: a subprocess of its own
\* behind those started before
exec_Command_Shared(started) ==
    IF started = <<>>
    THEN [procs |-> <<"running">>, pid |-> 1]
    ELSE [procs |-> [started EXCEPT ![1] = "running"], pid |-> 1]

exec_Command(started) ==
    [procs |-> Append(started, "running"), pid |-> Len(started) + 1]

\* the Wrapper NewWrapper returns: the stub it stores talks to the
\* subprocess of the client it was dispensed from
NewWrapperValue(pid) == [plugin |-> pid, ops |-> 0, servedBy |-> <<>>]

\* NewInputWrapper(name, root, checksum) and the creator for one
\* configuration: no client, no subprocess
BuildFactory ==
    /\ ~factory.built
    /\ \E sum \in HostChecksums, config \in {<<"l", NewLine, "k", NewLine>>} :
          factory' = [built |-> TRUE, checksum |-> sum, config |-> config]
    /\ UNCHANGED <<procs, wrappers, launch, host>>
    /\ UNCHANGED <<yvars, cvars, bvars, dvars, lvars, ovars>>

\* the creator up to the start of the subprocess in client.Client(): the
\* checksum is decoded, the digest of the executable compared and the
\* process spawned
InvokeCreator ==
    /\ factory.built /\ host = "up"
    /\ launch.phase = "idle"
    /\ Len(procs) < MaxInstances
    /\ \E spawn \in {"ok", "fail"} :
          LET r == SetupReceiver(factory.checksum)
              early == Creator("name", factory.config, factory.checksum,
                               [spawn |-> spawn, handshake |-> "ok", connect |-> "ok"])
              cmd == exec_Command(procs)
          IN  IF ~r.err.isNil \/ early.proc = "none"
              THEN /\ launch' = [NoLaunch EXCEPT !.outcome = "error", !.err = early.err]
                   /\ UNCHANGED procs
              ELSE /\ procs' = cmd.procs
                   /\ launch' = [NoLaunch EXCEPT !.phase = "waiting", !.pid = cmd.pid,
                                                  !.client = r.client]
    /\ UNCHANGED <<factory, wrappers, host>>
    /\ UNCHANGED <<yvars, cvars, bvars, dvars, lvars, ovars>>

\* a second passes while the host waits for the handshake line
Tick ==
    /\ launch.phase = "waiting"
    /\ launch.clock < launch.client.StartTimeout
    /\ launch' = [launch EXCEPT !.clock = @ + 1]
    /\ UNCHANGED <<factory, procs, wrappers, host>>
    /\ UNCHANGED <<yvars, cvars, bvars, dvars, lvars, ovars>>

\* how the creator ends once the handshake has ended as h
EndLaunch(h, connect) ==
    LET res == Creator("name", factory.config, factory.checksum,
                       [spawn |-> "ok", handshake |-> h, connect |-> connect])
    IN  /\ procs' = [procs EXCEPT ![launch.pid] = res.proc]
        /\ wrappers' = IF res.ok THEN Append(wrappers, NewWrapperValue(launch.pid))
                       ELSE wrappers
        /\ launch' = [launch EXCEPT !.phase = "idle",
                         !.outcome = IF res.ok THEN "connected" ELSE "error",
                         !.handshake = res.handshake, !.err = res.err]

\* the subprocess writes its handshake line before the timeout fires
Handshake ==
    /\ launch.phase = "waiting"
    /\ procs[launch.pid] = "running"
    /\ \E h \in {"ok", "mismatch"}, connect \in {"ok", "fail"} : EndLaunch(h, connect)
    /\ UNCHANGED <<factory, host>>
    /\ UNCHANGED <<yvars, cvars, bvars, dvars, lvars, ovars>>

\* the start timeout of the client expires
TimerFires ==
    /\ launch.phase = "waiting"
    /\ launch.clock >= launch.client.StartTimeout
    /\ EndLaunch("timeout", "ok")
    /\ UNCHANGED <<factory, host>>
    /\ UNCHANGED <<yvars, cvars, bvars, dvars, lvars, ovars>>

\* an operation of the Wrapper (Description, SampleConfig, Init, Gather):
\* a remote call through w.plugin
WrapperCall ==
    /\ host = "up"
    /\ \E w \in DOMAIN wrappers :
          /\ wrappers[w].ops < MaxCalls
          /\ wrappers' = [wrappers EXCEPT ![w].ops = @ + 1,
                                          ![w].servedBy = Append(@, wrappers[w].plugin)]
    /\ UNCHANGED <<factory, procs, launch, host>>
    /\ UNCHANGED <<yvars, cvars, bvars, dvars, lvars, ovars>>

\* the subprocess of a Wrapper ends by itself
ChildExit ==
    /\ \E p \in DOMAIN procs :
          /\ procs[p] = "running"
          /\ launch.phase = "waiting" => launch.pid # p
          /\ procs' = [procs EXCEPT ![p] = "exited"]
    /\ UNCHANGED <<factory, wrappers, launch, host>>
    /\ UNCHANGED <<yvars, cvars, bvars, dvars, lvars, ovars>>

\* the host shuts its inputs down: a Wrapper has neither Stop nor Close and
\* does not keep the client it was made from
Shutdown ==
    /\ host = "up"
    /\ launch.phase = "idle"
    /\ host' = "down"
    /\ UNCHANGED <<factory, procs, wrappers, launch>>
    /\ UNCHANGED <<yvars, cvars, bvars, dvars, lvars, ovars>>

InitHost ==
    /\ cjob = "none"
    /\ cstep = "idle"
    /\ CodecIdle
    /\ BridgeIdle
    /\ DiscoverIdle
    /\ HostIdle
    /\ RestIdle
    /\ LoggerIdle
    /\ OutputIdle

NextHost ==
    \/ BuildFactory
    \/ InvokeCreator
    \/ Tick
    \/ Handshake
    \/ TimerFires
    \/ WrapperCall
    \/ ChildExit
    \/ Shutdown

SpecHost == InitHost /\ [][NextHost]_vars

\* Time passes and the timer of a launch fires once it has expired.
FairSpecHost == SpecHost /\ WF_vars(Tick) /\ WF_vars(TimerFires)

(***************************************************************************)
(* The standard error of a child: a stream of at most MaxStream characters *)
(* that reaches Write cut into pieces, each piece one call.                *)
(***************************************************************************)
MaxStream == 4

StderrCharacters == {"a", Space, NewLine}

Streams == UNION {[1..n -> StderrCharacters] : n \in 0..MaxStream}

InitLogger ==
    /\ stream \in Streams
    /\ written = 0
    /\ hostLog = <<>>
    /\ cjob = "none"
    /\ cstep = "idle"
    /\ CodecIdle
    /\ BridgeIdle
    /\ DiscoverIdle
    /\ HostIdle
    /\ RestIdle
    /\ OutputIdle

\* one call of Write with the next n bytes of the stream
LoggerWrite ==
    /\ written < Len(stream)
    /\ \E n \in 1..(Len(stream) - written) :
          LET r == Logger_Write(SubSeq(stream, written + 1, written + n))
          IN  /\ hostLog' = hostLog \o r.printed
              /\ written' = written + r.n
    /\ UNCHANGED stream
    /\ UNCHANGED <<yvars, cvars, bvars, dvars, hvars, ovars>>

NextLogger == LoggerWrite

SpecLogger == InitLogger /\ [][NextLogger]_vars

(***************************************************************************)
(* The influxdb_v2 client writing the same metrics to one server, once or  *)
(* again, while time passes.                                               *)
(***************************************************************************)
MaxMetrics == 3

MaxWrites == 2

MaxNow == 1

HTTPClients ==
    {[Bucket |-> "telegraf", BucketTag |-> "", ExcludeBucketTag |-> FALSE],
     [Bucket |-> "telegraf", BucketTag |-> "bucket", ExcludeBucketTag |-> FALSE],
     [Bucket |-> "telegraf", BucketTag |-> "bucket", ExcludeBucketTag |-> TRUE]}

\* no answer, malformed, unauthorized, unavailable, server error, too large
Faults == {0, 400, 401, 503, 500, 413}

\* a server that takes one metric a request and one that takes any number,
\* with and without an answer out of turn to one of the first requests
Servers ==
    {[NoServer EXCEPT !.maxBody = n] : n \in 1..MaxMetrics}
    \cup [maxBody : {1, MaxMetrics}, faultAt : 1..(MaxMetrics + 1), fault : Faults,
          retryAfter : {NoHeader}, conv : {0}]

OutputMetric(i, tag) == [id |-> i - 1, tag |-> tag, removed |-> FALSE]

\* metrics with one of two values of the bucket tag, and metrics some of
\* which have no bucket tag
MetricLists ==
    {[i \in DOMAIN tags |-> OutputMetric(i, tags[i])] :
        tags \in UNION {[1..n -> {"foo", "bar"}] \cup [1..n -> {"none", "foo"}] :
                           n \in 0..MaxMetrics}}

InitOutput ==
    /\ ocfg \in HTTPClients
    /\ oserver \in Servers
    /\ ometrics \in MetricLists
    /\ oretry = NoRetry
    /\ onow = 0
    /\ olast = NoWrite
    /\ ocount = 0
    /\ cjob = "none"
    /\ cstep = "idle"
    /\ CodecIdle
    /\ BridgeIdle
    /\ DiscoverIdle
    /\ HostIdle
    /\ RestIdle
    /\ LoggerIdle

\* httpClient.Write(ctx, metrics), the map of batches iterated in any order
ClientWrite ==
    /\ ocount < MaxWrites
    /\ \E order \in Perms(BatchKeys(ocfg, ometrics)) :
          LET r == httpClient_Write(ocfg, oretry, ometrics, order, oserver, onow)
          IN  /\ olast' = [order |-> order, sent |-> r.sent,
                           answers |-> [k \in DOMAIN r.sent |->
                                           Respond(oserver, k, r.sent[k].metrics)],
                           err |-> r.err, before |-> oretry, at |-> onow]
              /\ oretry' = r.st
    /\ ocount' = ocount + 1
    /\ UNCHANGED <<ocfg, oserver, ometrics, onow>>
    /\ UNCHANGED <<yvars, cvars, bvars, dvars, hvars, lvars>>

\* the back-off of the first retry, 25 milliseconds
FirstBackoff == getRetryDuration(1, NoHeader, 0)

\* time passes
Advance ==
    /\ onow < MaxNow * FirstBackoff
    /\ onow' = onow + FirstBackoff
    /\ UNCHANGED <<ocfg, oserver, ometrics, oretry, olast, ocount>>
    /\ UNCHANGED <<yvars, cvars, bvars, dvars, hvars, lvars>>

NextOutput == ClientWrite \/ Advance

\* the server answers in turn again
Recover ==
    /\ oserver.faultAt # 0
    /\ oserver' = [oserver EXCEPT !.faultAt = 0]
    /\ UNCHANGED <<ocfg, ometrics, oretry, onow, olast, ocount>>
    /\ UNCHANGED <<yvars, cvars, bvars, dvars, hvars, lvars>>

\* time passes until the retry time of the client
AdvanceToRetry ==
    /\ oretry.retryTime > onow
    /\ onow' = oretry.retryTime
    /\ UNCHANGED <<ocfg, oserver, ometrics, oretry, olast, ocount>>
    /\ UNCHANGED <<yvars, cvars, bvars, dvars, hvars, lvars>>

MaxRetries == 50

\* too many requests, unavailable, bad gateway, gateway timeout
RetryStatuses == {429, 503, 502, 504}

\* no header, an HTTP date, 50 milliseconds, 700 seconds, a negative number
RetryHeaders ==
    {NoHeader, [kind |-> "invalid", ms |-> 0], [kind |-> "number", ms |-> 2 * FirstBackoff],
     [kind |-> "number", ms |-> (defaultMaxWaitRetryAfterSeconds + 100) * 1000],
     [kind |-> "number", ms |-> 0 - 5000]}

\* the durations the conversion of NaN ends in: the integer is the smallest
\* one or 0, which multiplied by a million wraps to 0, or the largest one,
\* which wraps to minus one millisecond
NaNDurations == {0, 0 - 1}

\* servers that answer the first or the second request of a Write with a
\* status that asks to retry
RetryServers ==
    [maxBody : {MaxMetrics}, faultAt : {1, 2}, fault : RetryStatuses,
     retryAfter : RetryHeaders, conv : {0}]
    \cup [maxBody : {MaxMetrics}, faultAt : {1}, fault : {503},
          retryAfter : {[kind |-> "nan", ms |-> 0]}, conv : NaNDurations]

\* no retry, one, and as many as take the back-off to its cap
RetryCounts == {0, 1} \cup {n \in 0..MaxRetries : n >= MaxRetries - 3}

\* a client that has been asked to retry some times in a row and whose
\* retry time has come
InitRetry ==
    /\ ocfg \in {c \in HTTPClients : ~c.ExcludeBucketTag}
    /\ oserver \in RetryServers
    /\ ometrics \in {<<OutputMetric(1, "none")>>,
                     <<OutputMetric(1, "none"), OutputMetric(2, "foo")>>}
    /\ oretry \in {[retryCount |-> n, retryTime |-> 0] : n \in RetryCounts}
    /\ onow = 0
    /\ olast = NoWrite
    /\ ocount = 0
    /\ cjob = "none"
    /\ cstep = "idle"
    /\ CodecIdle
    /\ BridgeIdle
    /\ DiscoverIdle
    /\ HostIdle
    /\ LoggerIdle
    /\ RestIdle

NextRetry == ClientWrite \/ Advance \/ AdvanceToRetry \/ Recover

SpecRetry == InitRetry /\ [][NextRetry]_vars

SpecOutput == InitOutput /\ [][NextOutput]_vars

(***************************************************************************)
(* The influxdb_v2 plugin writing to the servers of its clients.  Connect  *)
(* gives every client the settings of the plugin, so the clients differ in *)
(* the server they write to and in their retry state.                      *)
(***************************************************************************)
\* the loop of Write over rand.Perm(len(i.clients)), from the i-th on:
\* whether it fell through, the clients tried with what each was sent and
\* returned, and the retry states
RECURSIVE WriteClients(_, _, _, _, _, _, _, _, _)
WriteClients(cfg, servers, sts, metrics, perm, orders, i, now, tried) ==
    IF i > Len(perm)
    THEN [failed |-> TRUE, tried |-> tried, sts |-> sts]
    ELSE LET n == perm[i]
             r == httpClient_Write(cfg, sts[n], metrics, orders[n], servers[n], now)
             entry == [client |-> n, sent |-> r.sent, err |-> r.err]
         IN  IF r.err.kind # "nil"
             THEN WriteClients(cfg, servers, [sts EXCEPT ![n] = r.st], metrics, perm, orders,
                               i + 1, now, Append(tried, entry))
             ELSE [failed |-> FALSE, tried |-> Append(tried, entry),
                   sts |-> [sts EXCEPT ![n] = r.st]]

\* Faulty variant of InfluxDB.Write: only the first client of the
\* permutation is tried.
InfluxDB_Write_FirstOnly(cfg, servers, sts, metrics, perm, orders, now) ==
    WriteClients(cfg, servers, sts, metrics, SelectSeq(perm, LAMBDA n : n = perm[1]), orders,
                 1, now, <<>>)

\* InfluxDB.Write(metrics) with the permutation rand.Perm returns
InfluxDB_Write(cfg, servers, sts, metrics, perm, orders, now) ==
    WriteClients(cfg, servers, sts, metrics, perm, orders, 1, now, <<>>)

MaxClients == 2

\* servers that accept, give no answer and are unavailable
PluginServers ==
    {[NoServer EXCEPT !.maxBody = MaxMetrics]}
    \cup [maxBody : {MaxMetrics}, faultAt : {1}, fault : {0, 503},
          retryAfter : {NoHeader}, conv : {0}]

PluginMetricLists ==
    {<<>>, <<OutputMetric(1, "foo")>>, <<OutputMetric(1, "none"), OutputMetric(2, "foo")>>}

InitInflux ==
    /\ icfg \in {c \in HTTPClients : ~c.ExcludeBucketTag}
    /\ iservers \in UNION {[1..n -> PluginServers] : n \in 0..MaxClients}
    /\ iretry = [n \in DOMAIN iservers |-> NoRetry]
    /\ imetrics \in PluginMetricLists
    /\ ilast = NoPluginWrite
    /\ icount = 0
    /\ cjob = "none"
    /\ cstep = "idle"
    /\ CodecIdle
    /\ BridgeIdle
    /\ DiscoverIdle
    /\ HostIdle
    /\ LoggerIdle
    /\ OutputIdle
    /\ LimiterIdle
    /\ ConcurrentIdle

\* InfluxDB.Write(metrics)
PluginWrite ==
    /\ icount < MaxWrites
    /\ \E perm \in Perms(DOMAIN iservers) :
          \E orders \in [DOMAIN iservers -> Perms(BatchKeys(icfg, imetrics))] :
             LET r == InfluxDB_Write(icfg, iservers, iretry, imetrics, perm, orders, onow)
             IN  /\ ilast' = [perm |-> perm, tried |-> r.tried, failed |-> r.failed,
                              at |-> onow]
                 /\ iretry' = r.sts
    /\ icount' = icount + 1
    /\ UNCHANGED <<icfg, iservers, imetrics>>
    /\ UNCHANGED <<cvars, bvars, dvars, hvars, lvars, ovars, mvars, gvars>>

NextInflux == PluginWrite \/ Advance

SpecInflux == InitInflux /\ [][NextInflux]_vars

(***************************************************************************)
(* The rate limiter.  A time is a number, 0 being the zero time.Time, which *)
(* lies further back from every other time than a Duration can hold.       *)
(***************************************************************************)
math_MaxInt64 == 2147483647

\* t.Sub(u): the difference, the largest Duration when it cannot be held
time_Sub(t, u) == IF u = 0 /\ t # 0 THEN math_MaxInt64 ELSE t - u

\* d.Truncate(m)
Duration_Truncate(d, m) == IF m <= 0 THEN d ELSE d - (d % m)

\* cfg.CreateRateLimiter()
CreateRateLimiter(cfg) ==
    [limit |-> cfg.Limit, period |-> cfg.Period, periodStart |-> 0, remaining |-> 0]

\* r.Remaining(t)
RateLimiter_Remaining(r, t) ==
    IF r.limit = 0
    THEN math_MaxInt64
    ELSE IF ~(r.periodStart < t)
    THEN 0
    ELSE IF time_Sub(t, r.periodStart) >= r.period
    THEN r.limit
    ELSE r.remaining

\* Faulty variant of Accept: what is used by the call that starts a period
\* is not deducted.
RateLimiter_Accept_ForgetsFirst(r, t, used) ==
    IF r.limit = 0 \/ r.periodStart > t
    THEN r
    ELSE IF r.periodStart = 0
    THEN [r EXCEPT !.periodStart = t, !.remaining = r.limit]
    ELSE IF time_Sub(t, r.periodStart) >= r.period
    THEN [r EXCEPT !.periodStart = r.periodStart +
                                      Duration_Truncate(time_Sub(t, r.periodStart), r.period),
                   !.remaining = r.limit]
    ELSE [r EXCEPT !.remaining = Larger(r.remaining - used, 0)]

\* r.Accept(t, used)
RateLimiter_Accept(r, t, used) ==
    IF r.limit = 0 \/ r.periodStart > t
    THEN r
    ELSE LET reset ==
                 IF r.periodStart = 0
                 THEN [r EXCEPT !.periodStart = t, !.remaining = r.limit]
                 ELSE IF time_Sub(t, r.periodStart) >= r.period
                 THEN [r EXCEPT !.periodStart =
                                    r.periodStart +
                                    Duration_Truncate(time_Sub(t, r.periodStart), r.period),
                                !.remaining = r.limit]
                 ELSE r
         IN  [reset EXCEPT !.remaining = Larger(reset.remaining - used, 0)]

\* Faulty variant of Undo: what is given back is not capped at the limit.
RateLimiter_Undo_NoCap(r, t, used) ==
    IF \/ r.limit = 0
       \/ r.periodStart = 0
       \/ r.periodStart > t
       \/ time_Sub(t, r.periodStart) >= r.period
    THEN r
    ELSE [r EXCEPT !.remaining = r.remaining + used]

\* r.Undo(t, used)
RateLimiter_Undo(r, t, used) ==
    IF \/ r.limit = 0
       \/ r.periodStart = 0
       \/ r.periodStart > t
       \/ time_Sub(t, r.periodStart) >= r.period
    THEN r
    ELSE [r EXCEPT !.remaining = Smaller(r.remaining + used, r.limit)]

MaxLimit == 3

MaxPeriod == 2

MaxTime == 4

\* the amounts of the calls that do not ask Remaining first
Amounts == 0..(MaxLimit + 1)

InitLimiter ==
    /\ \E limit \in 0..MaxLimit, period \in 1..MaxPeriod :
          limiter = CreateRateLimiter([Limit |-> limit, Period |-> period])
    /\ ledger = [NoLedger EXCEPT !.sums = [k \in 1..MaxTime |-> 0]]
    /\ llast = NoLimiterCall
    /\ cjob = "none"
    /\ cstep = "idle"
    /\ CodecIdle
    /\ BridgeIdle
    /\ DiscoverIdle
    /\ HostIdle
    /\ LoggerIdle
    /\ OutputIdle
    /\ InfluxIdle
    /\ ConcurrentIdle

\* the account after an Accept of writeBatch at time t: the periods are
\* counted from the first Accept; without a limit nothing is counted
Booked(t, used) ==
    LET first == IF ledger.first = 0 THEN t ELSE ledger.first
        k == ((t - first) \div limiter.period) + 1
    IN  IF limiter.limit = 0
        THEN [ledger EXCEPT !.now = t]
        ELSE [ledger EXCEPT !.now = t, !.first = first, !.sums[k] = @ + used]

\* the time t lies outside the period the limiter r is in
OutsidePeriod(r, t) ==
    \/ r.periodStart = 0
    \/ t < r.periodStart
    \/ t - r.periodStart >= r.period

\* the record of a call at time t that takes the limiter to next
LimiterCall(op, t, used, next) ==
    [op |-> op, t |-> t, used |-> used, outside |-> OutsidePeriod(limiter, t),
     was |-> limiter.remaining, changed |-> next # limiter]

\* the account is given up with the first call that is not writeBatch's
Unbooked == [NoLedger EXCEPT !.mode = "any", !.sums = [k \in 1..MaxTime |-> 0]]

\* writeBatch: Remaining(ratets), a body of at most that size, Accept(ratets,
\* used), at a time not before the last one
BatchAccept ==
    /\ ledger.mode = "batch"
    /\ \E t \in 1..MaxTime :
          /\ t >= ledger.now
          /\ \E used \in 0..Smaller(RateLimiter_Remaining(limiter, t), MaxLimit + 1) :
                /\ limiter' = RateLimiter_Accept(limiter, t, used)
                /\ ledger' = Booked(t, used)
                /\ llast' = LimiterCall("Accept", t, used, limiter')
    /\ UNCHANGED <<cvars, bvars, dvars, hvars, lvars, ovars, ivars, gvars>>

\* Accept with any amount at any time
AnyAccept ==
    /\ \E t \in 0..MaxTime, used \in Amounts :
          /\ limiter' = RateLimiter_Accept(limiter, t, used)
          /\ llast' = LimiterCall("Accept", t, used, limiter')
    /\ ledger' = Unbooked
    /\ UNCHANGED <<cvars, bvars, dvars, hvars, lvars, ovars, ivars, gvars>>

\* Undo with any amount at any time
AnyUndo ==
    /\ \E t \in 0..MaxTime, used \in Amounts :
          /\ limiter' = RateLimiter_Undo(limiter, t, used)
          /\ llast' = LimiterCall("Undo", t, used, limiter')
    /\ ledger' = Unbooked
    /\ UNCHANGED <<cvars, bvars, dvars, hvars, lvars, ovars, ivars, gvars>>

NextLimiter == BatchAccept \/ AnyAccept \/ AnyUndo

SpecLimiter == InitLimiter /\ [][NextLimiter]_vars

(***************************************************************************)
(* Two callers in one Gather each on the same Wrapper.  The Wrapper reads  *)
(* its fields and writes none of them; metrics and err are local variables *)
(* of each call.  A call is issued and served (GatherCall), returns to     *)
(* its caller (GatherReply), hands one metric to the accumulator per step  *)
(* (GatherAdd) and returns (GatherReturn); the steps of the two callers    *)
(* interleave in every order.  The accumulator takes one metric at a time. *)
(***************************************************************************)
NoEnv == [net |-> "ok", metrics |-> <<>>, err |-> NilError]

InitConcurrent ==
    /\ cjob = "none"
    /\ cstep = "idle"
    /\ CodecIdle
    /\ BridgeIdle
    /\ DiscoverIdle
    /\ HostIdle
    /\ LoggerIdle
    /\ OutputIdle
    /\ InfluxIdle
    /\ LimiterIdle
    /\ gresp = [c \in Callers |-> NoResponse]
    /\ gframe = [c \in Callers |-> [NoFrame EXCEPT !.env = NoEnv]]
    /\ gsink = <<>>
    /\ gowner = <<>>

\* what the server sent back for one call, as the server saw it
Answered(env) ==
    LET resp == server_Gather(env.metrics, env.err)
    IN  [answered |-> Delivered("running", env.net),
         replied |-> Replied("running", env.net) /\ ~resp.rpcErr,
         failed |-> ~resp.err.isNil,
         Metric |-> IF Delivered("running", env.net) THEN resp.Metric ELSE <<>>]

\* Faulty variant of Wrapper_Gather_Call: the slice is kept in a field of
\* the Wrapper, so that a caller in its loop ranges over the slice of the
\* call that returned last.
Wrapper_Gather_Call_SharedSlice(frames, c, g) ==
    [d \in Callers |->
        IF d = c
        THEN [pc |-> "ranging", env |-> NoEnv, metrics |-> g.metrics, err |-> g.err, i |-> 1,
              ret |-> NilError]
        ELSE IF frames[d].pc = "ranging" /\ g.err.isNil
        THEN [frames[d] EXCEPT !.metrics = g.metrics]
        ELSE frames[d]]

\* metrics, err := w.plugin.Gather(): the frames of the callers after the
\* call of caller c returned g
Wrapper_Gather_Call(frames, c, g) ==
    [frames EXCEPT ![c] = [pc |-> "ranging", env |-> NoEnv, metrics |-> g.metrics,
                           err |-> g.err, i |-> 1, ret |-> NilError]]

\* the request of caller c reaches the server (or is lost) and the server
\* calls the plugin's Gather
GatherCall(c) ==
    /\ gframe[c].pc = "idle"
    /\ \E env \in GatherEnvs :
          /\ gframe' = [gframe EXCEPT ![c] = [@ EXCEPT !.pc = "waiting", !.env = env]]
          /\ gresp' = [gresp EXCEPT ![c] = Answered(env)]
    /\ UNCHANGED <<cvars, bvars, dvars, hvars, lvars, ovars, ivars, mvars, gsink, gowner>>

\* the remote call of caller c returns
GatherReply(c) ==
    /\ gframe[c].pc = "waiting"
    /\ \E g \in externalInputClient_Gather("running", gframe[c].env) :
          gframe' = Wrapper_Gather_Call(gframe, c, g)
    /\ UNCHANGED <<cvars, bvars, dvars, hvars, lvars, ovars, ivars, mvars, gresp, gsink, gowner>>

\* one pass of the loop of caller c: acc.AddMetric(m)
GatherAdd(c) ==
    /\ gframe[c].pc = "ranging"
    /\ gframe[c].err.isNil
    /\ gframe[c].i <= Len(gframe[c].metrics)
    /\ gsink' = Append(gsink, gframe[c].metrics[gframe[c].i])
    /\ gowner' = Append(gowner, c)
    /\ gframe' = [gframe EXCEPT ![c].i = @ + 1]
    /\ UNCHANGED <<cvars, bvars, dvars, hvars, lvars, ovars, ivars, mvars, gresp>>

\* caller c returns: the error of the call, or nil behind the loop
GatherReturn(c) ==
    /\ gframe[c].pc = "ranging"
    /\ ~gframe[c].err.isNil \/ gframe[c].i > Len(gframe[c].metrics)
    /\ gframe' = [gframe EXCEPT ![c].pc = "done", ![c].ret = gframe[c].err]
    /\ UNCHANGED <<cvars, bvars, dvars, hvars, lvars, ovars, ivars, mvars, gresp, gsink, gowner>>

NextConcurrent ==
    \E c \in Callers : GatherCall(c) \/ GatherReply(c) \/ GatherAdd(c) \/ GatherReturn(c)

SpecConcurrent == InitConcurrent /\ [][NextConcurrent]_vars

(***************************************************************************)
(* Properties of the bridge (checked under Spec).                          *)
(***************************************************************************)
ChecksumMatches ==
    ~hex_DecodeString(checksum).err /\ hex_DecodeString(checksum).bytes = ExeDigest

\* C5: the process receives a remote call only after its handshake
\* succeeded and, when a checksum was given, the digest of the executable
\* matched it; when the checksum does not match, no Wrapper is created, no
\* process is spawned and nothing is received.
C5_NoCallWithoutHandshake ==
    /\ received # <<>> =>
          /\ handshakeResult = "ok"
          /\ checksum # <<>> => ChecksumMatches
    /\ (phase # "new" /\ checksum # <<>> /\ ~ChecksumMatches) =>
          /\ phase = "failed"
          /\ proc = "none"
          /\ received = <<>>

\* a call was delivered to a process started with a checksum
C5_Witness == received # <<>> /\ checksum = <<"A", "a">> /\ handshakeResult = "ok"

\* C6: when creating the instance returned an error, no subprocess started
\* by the attempt is running.
C6_NoProcessLeftRunning == phase = "failed" => proc # "running"

\* C7: Wrapper.Init issues Configure with the wrapper's configuration text
\* first; when Configure returns an error, Init is neither issued nor
\* received and the error returned carries the message of that error
\* behind "configuration failed: "; otherwise Init is issued second and its
\* outcome is what Wrapper.Init returns.
C7_InitOrdering ==
    last.op = "Init" =>
        /\ Len(last.issued) >= 1
        /\ last.issued[1] = Call("Configure", wconfig)
        /\ IF ~last.results[1].isNil
           THEN /\ Len(last.issued) = 1
                /\ \A i \in DOMAIN last.delivered : last.delivered[i] # "Init"
                /\ ~last.ret.isNil
                /\ last.ret.msg = <<"configuration failed: ">> \o last.results[1].msg
           ELSE /\ Len(last.issued) = 2
                /\ last.issued[2] = Call("Init", <<>>)
                /\ last.delivered[1] = "Configure"
                /\ last.ret = last.results[2]

\* Configure reported an error of the plugin and Init was skipped
C7_Witness ==
    /\ last.op = "Init"
    /\ Len(last.issued) = 1
    /\ last.delivered = <<"Configure">>
    /\ last.results[1].msg = <<"toml: parse error">>

ReceivedAt(rpc) == {i \in DOMAIN received : received[i] = rpc}

\* C8: the process receives Init at most once, and exactly one Configure
\* before it.
C8_InitAtMostOnce ==
    /\ Cardinality(ReceivedAt("Init")) <= 1
    /\ \A i \in ReceivedAt("Init") :
          Cardinality({j \in ReceivedAt("Configure") : j < i}) = 1

\* C9: Wrapper.Gather before any Wrapper.Init succeeded issues no remote
\* call and returns an error.
C9_GatherBeforeInitRejected ==
    (last.op = "Gather" /\ ~last.initBefore) =>
        /\ last.issued = <<>>
        /\ last.delivered = <<>>
        /\ ~last.ret.isNil

\* C10: when the remote Gather succeeded, Wrapper.Gather returns no error
\* and the accumulator holds what it held before followed by one metric for
\* every message of the response, in the order of the response.
C10_GatherForwardsInOrder ==
    (last.op = "Gather" /\ last.remoteOK) =>
        /\ last.ret.isNil
        /\ Len(sink) = Len(last.before) + Len(last.resp)
        /\ SubSeq(sink, 1, Len(last.before)) = last.before
        /\ \A i \in DOMAIN last.resp :
              sink[Len(last.before) + i] \in FromMetricMessage(last.resp[i])

\* a response of two different metrics was added behind earlier ones
C10_Witness ==
    /\ last.op = "Gather"
    /\ last.remoteOK
    /\ last.before # <<>>
    /\ Len(last.resp) = 2
    /\ last.resp[1] # last.resp[2]

\* the plugin's Gather reported an error and the response arrived
DomainErrorInGather ==
    /\ last.op = "Gather"
    /\ last.replied
    /\ Len(last.served) = 1
    /\ ~last.served[1].err.isNil

\* C11: when the remote Gather reports an error of the plugin,
\* Wrapper.Gather returns an error with that error's message and the
\* accumulator is as it was, whatever the plugin had collected.
C11_DomainErrorNoForward ==
    DomainErrorInGather =>
        /\ ~last.ret.isNil
        /\ last.ret.msg = last.served[1].err.msg
        /\ sink = last.before

\* the plugin had collected a metric, the accumulator held some already
C11_Witness == DomainErrorInGather /\ last.collected # <<>> /\ last.before # <<>>

\* C12: every failure the plugin or the parsing of the configuration
\* reports inside Configure, Init or Gather is answered with a response
\* whose error message has IsError set and carries the failure text, and
\* with no error of the call.
C12_FailureInResponse ==
    \A i \in DOMAIN last.served :
        ~last.served[i].err.isNil =>
            /\ ~last.served[i].rpcErr
            /\ GetIsError(last.served[i].Error)
            /\ GetMessage(last.served[i].Error) = last.served[i].err.msg

\* Configure met a setting the plugin does not have
C12_Witness ==
    /\ last.op = "Init"
    /\ Len(last.served) = 1
    /\ last.served[1].rpc = "Configure"
    /\ last.served[1].err.msg = <<"toml: field not found">>

HasText(err, text) == \E i \in DOMAIN err.msg : err.msg[i] = text

\* C13: a stub operation whose call does not reach the process returns a
\* transport error, and the host never panics.
C13_ConnectionFailureSurfaces ==
    /\ ~panicked
    /\ (last.op \in {"Init", "Gather"} /\ last.delivered = <<>>) =>
          HasText(last.ret, "gRPC call failed: ")

\* a step that runs Wrapper.Gather
GatherStep == ncalls' = ncalls + 1 /\ last'.op = "Gather"

\* C14: a Wrapper.Gather that returns an error leaves the plugin process as
\* it was, and a Wrapper.Gather that follows a failed one issues one remote
\* Gather again.
C14_GatherErrorKeepsProcess ==
    [][GatherStep =>
          /\ ~last'.ret.isNil => proc' = proc
          /\ (last.op = "Gather" /\ ~last.ret.isNil) =>
                last'.issued = <<Call("Gather", <<>>)>>]_vars

\* a Gather after a failed one was received by the running process
C14_Witness ==
    /\ last.op = "Gather"
    /\ last.prev = [op |-> "Gather", failed |-> TRUE]
    /\ last.delivered = <<"Gather">>
    /\ proc = "running"

\* C15: every Wrapper.Gather issues exactly one remote Gather, which the
\* process receives at most once; an error of it is what Wrapper.Gather
\* returns, with the accumulator as it was; on success the accumulator
\* grows by the metrics of this response only.
C15_OneRemoteGatherPerCall ==
    last.op = "Gather" =>
        /\ last.issued = <<Call("Gather", <<>>)>>
        /\ Len(last.delivered) <= 1
        /\ last.ret = last.results[1]
        /\ IF last.ret.isNil
           THEN Len(sink) = Len(last.before) + Len(last.resp)
           ELSE sink = last.before

\* the response of the one call was lost, and an error returned
C15_Witness ==
    /\ last.op = "Gather"
    /\ ~last.replied
    /\ last.delivered = <<"Gather">>
    /\ HasText(last.ret, "gRPC call failed: ")

\* the settings named behind the first line break of the configuration
RestKeys ==
    LET nl == IndexOf(wconfig, NewLine)
        rest == IF nl = 0 THEN <<>> ELSE SubSeq(wconfig, nl + 1, Len(wconfig))
    IN  {rest[i] : i \in DOMAIN rest} \ {NewLine}

\* C16: nothing of the text up to the first line break is ever applied to
\* the plugin, and a Configure that reports success has applied exactly the
\* settings of the remainder (none when the text has no line break).
C16_ConfigureStripsHeader ==
    /\ applied \subseteq RestKeys
    /\ (last.op = "Init" /\ last.served # <<>> /\ last.served[1].err.isNil) =>
          applied = RestKeys

\* the first line reads like a setting and only the second one is applied
C16_Witness ==
    /\ wconfig = <<"l", NewLine, "k", NewLine>>
    /\ last.op = "Init"
    /\ last.served # <<>>
    /\ applied = {"k"}

(***************************************************************************)
(* Properties of discovery (checked under SpecDiscover).                   *)
(***************************************************************************)
ReadDone == djob = "read" /\ dstep = "done"

DiscoverDone == djob = "discover" /\ dstep = "done"

\* the categories whose directory exists and has no checksum file
WithoutChecksumFile ==
    {c \in CategorySet : droot[c].stat = "dir" /\ droot[c].checksums.state = "absent"}

\* C17: for a checksum file that does not exist readChecksums returns an
\* empty mapping and no error; Discover succeeds when no category has a
\* directory that cannot be checked or a checksum file, and whenever it
\* succeeds a category without checksum file has its executables
\* registered and an empty manifest.
C17_MissingChecksumFile ==
    /\ (ReadDone /\ dfile.state = "absent") =>
          /\ dread.kind = "ok"
          /\ dread.err.isNil
          /\ dread.checksums = {}
    /\ (DiscoverDone /\ \A c \in CategorySet :
                           \/ droot[c].stat \in {"absent", "file"}
                           \/ c \in WithoutChecksumFile /\ filepath_Walk(droot[c]).kind = "ok") =>
          dres.kind = "ok"
    /\ (DiscoverDone /\ dres.kind = "ok") =>
          \A c \in WithoutChecksumFile :
             /\ dres.register[c] = filepath_Walk(droot[c]).names
             /\ dres.checksums[c].present
             /\ dres.checksums[c].checksums = {}

\* a category without checksum file had its executable registered
C17_Witness ==
    /\ DiscoverDone
    /\ "inputs" \in WithoutChecksumFile
    /\ dres.kind = "ok"
    /\ dres.register["inputs"] = <<"a">>

IsComment(line) == Len(line) > 0 /\ line[1] = "#"

\* a line of two fields, the second one not empty
TwoFields(line) ==
    /\ Len(strings_SplitN(line, Space)) = 2
    /\ Len(strings_SplitN(line, Space)[2]) > 0

LineKey(line) == Tail(strings_SplitN(line, Space)[2])

LineValue(line) == strings_SplitN(line, Space)[1]

LinesAt(P(_)) == {i \in DOMAIN dfile.lines : P(dfile.lines[i])}

NotComment(line) == ~IsComment(line)

ShortLine(line) == Len(strings_SplitN(line, Space)) < 2

HasShortLine(file) ==
    file.state = "present" /\ \E i \in DOMAIN file.lines : ShortLine(file.lines[i])

\* C19: a checksum file with a line of fewer than two fields makes
\* readChecksums return an error and no mapping, and Discover of a root
\* with such a file in a category directory return an error and no
\* registration.
C19_ShortLineIsFatal ==
    /\ (ReadDone /\ HasShortLine(dfile)) =>
          /\ dread.kind = "error"
          /\ dread.isNil
          /\ dread.checksums = {}
    /\ (DiscoverDone /\ \E c \in CategorySet :
                           droot[c].stat = "dir" /\ HasShortLine(droot[c].checksums)) =>
          /\ dres.kind = "error"
          /\ DOMAIN dres.register = {}

\* the last line with the key of line i
LastWithKey(i) ==
    CHOOSE j \in DOMAIN dfile.lines :
        /\ LineKey(dfile.lines[j]) = LineKey(dfile.lines[i])
        /\ \A k \in DOMAIN dfile.lines :
              LineKey(dfile.lines[k]) = LineKey(dfile.lines[i]) => k <= j

\* C20 as stated: the key of every line is its file name without the mode
\* character and the value its digest; the line with two spaces before the
\* asterisk gives the key "a".
C20_KeyWithoutModePrefix ==
    (ReadDone /\ dfile.state = "present" /\ ~dfile.scanErr
        /\ \A i \in DOMAIN dfile.lines : TwoFields(dfile.lines[i])) =>
        /\ dread.kind = "ok"
        /\ \A i \in DOMAIN dfile.lines :
              dfile.lines[i] = <<"d", Space, Space, "*", "a">> =>
                  \E e \in dread.checksums : e.Key = <<"a">> /\ e.Value = <<"d">>

\* C20 as amended: a file whose lines all have a space gives a mapping
\* exactly when the space of every line is followed by a character (the
\* reader panics otherwise); the key of a line is then the text behind its
\* first space less the first character, and the value of a key the text
\* before the first space of the last line with that key.  One space and
\* an asterisk before the name give the name; two spaces and an asterisk
\* give the asterisk and the name.
C20_KeyIsRestLessOneCharacter ==
    (ReadDone /\ dfile.state = "present" /\ ~dfile.scanErr
        /\ \A i \in DOMAIN dfile.lines : ~ShortLine(dfile.lines[i])) =>
        IF \A i \in DOMAIN dfile.lines : TwoFields(dfile.lines[i])
        THEN /\ dread.kind = "ok"
             /\ \A i \in DOMAIN dfile.lines :
                   [Key |-> LineKey(dfile.lines[i]),
                    Value |-> LineValue(dfile.lines[LastWithKey(i)])] \in dread.checksums
             /\ dfile.lines = <<<<"d", Space, "*", "a">>>> =>
                   dread.checksums = {[Key |-> <<"a">>, Value |-> <<"d">>]}
             /\ dfile.lines = <<<<"d", Space, Space, "*", "a">>>> =>
                   dread.checksums = {[Key |-> <<"*", "a">>, Value |-> <<"d">>]}
        ELSE dread.kind = "panic"

\* the line with one space and an asterisk was read
C20_Witness ==
    /\ ReadDone
    /\ dfile.lines = <<<<"d", Space, "*", "a">>>>
    /\ dread.checksums = {[Key |-> <<"a">>, Value |-> <<"d">>]}

\* what Discover makes of one category directory that exists
Scans(dir) ==
    \/ dir.stat = "file"
    \/ /\ dir.stat = "dir"
       /\ readChecksums(dir.checksums).kind = "ok"
       /\ filepath_Walk(dir).kind = "ok"

\* C21: a category whose subdirectory is missing gets an empty list, the
\* other categories are scanned all the same, and Discover succeeds unless
\* a category that is there makes it fail.
C21_MissingCategoryIsEmpty ==
    DiscoverDone =>
       /\ (\A c \in CategorySet : droot[c].stat = "absent" \/ Scans(droot[c])) =>
             dres.kind = "ok"
       /\ dres.kind = "ok" =>
             \A c \in CategorySet :
                /\ droot[c].stat = "absent" => dres.register[c] = <<>>
                /\ droot[c].stat = "dir" => dres.register[c] = filepath_Walk(droot[c]).names

\* the inputs directory is missing and the executable of the outputs
\* directory is registered
C21_Witness ==
    /\ DiscoverDone
    /\ droot["inputs"].stat = "absent"
    /\ dres.kind = "ok"
    /\ dres.register["inputs"] = <<>>
    /\ dres.register["outputs"] = <<"b">>

\* a regular file, or a symbolic link to one, with a permission bit for
\* execution
RegularExecutable(e) ==
    \/ e.mode = "file" /\ e.exec
    \/ e.mode = "symlink" /\ e.tmode = "file" /\ e.texec

NamesOf(entries) == [k \in DOMAIN entries |-> entries[k].name]

\* the walk of a category directory fails: the directory or one below it
\* cannot be listed, or an entry it lists cannot be examined
WalkFails(dir) ==
    /\ dir.stat = "dir"
    /\ ~dir.link
    /\ \/ ~dir.readable
       \/ \E k \in DOMAIN dir.entries :
             /\ Visited(dir.entries, dir.entries[k])
             /\ \/ ~dir.entries[k].lstat
                \/ dir.entries[k].mode = "dir" /\ ~dir.entries[k].readable

\* C22: the list of a category holds the base names of exactly the entries
\* below the category directory that are regular files, symbolic links
\* resolved, with a permission bit for execution (every directory being
\* listed and every entry examined without failure).
C22_ListIsExecutables ==
    (DiscoverDone /\ dres.kind = "ok") =>
       \A c \in CategorySet :
          (droot[c].stat = "dir" /\ ~WalkFails(droot[c])) =>
             dres.register[c] = NamesOf(SelectSeq(droot[c].entries, RegularExecutable))

\* C23: when the walk of a category directory fails, Discover returns an
\* error and no registration.
C23_WalkFailureIsError ==
    (/\ DiscoverDone
     /\ readChecksums(droot["inputs"].checksums).kind = "ok"
     /\ WalkFails(droot["inputs"])) =>
       /\ dres.kind = "error"
       /\ ~dres.err.isNil
       /\ DOMAIN dres.register = {}

(***************************************************************************)
(* Properties of the instances (checked under SpecHost, FairSpecHost).     *)
(***************************************************************************)
\* C24: every Wrapper is bound to one subprocess of its own, started by the
\* creator call that made the Wrapper, and every remote call of the Wrapper
\* goes to that subprocess.
C24_OneWrapperOneSubprocess ==
    /\ \A w \in DOMAIN wrappers :
          /\ wrappers[w].plugin \in DOMAIN procs
          /\ \A k \in DOMAIN wrappers[w].servedBy :
                wrappers[w].servedBy[k] = wrappers[w].plugin
    /\ \A w1, w2 \in DOMAIN wrappers :
          w1 # w2 => wrappers[w1].plugin # wrappers[w2].plugin
    /\ Len(wrappers) <= Len(procs)

\* two Wrappers, both used
C24_Witness ==
    /\ Len(wrappers) >= 2
    /\ \A w \in DOMAIN wrappers : wrappers[w].ops >= 1

\* C25: a subprocess is started only when the first operation of its
\* Wrapper needs it.
C25_LazyStart ==
    \A p \in DOMAIN procs :
       \E w \in DOMAIN wrappers : wrappers[w].plugin = p /\ wrappers[w].ops > 0

\* C26: after the host has shut down, no subprocess of a Wrapper is running.
C26_KilledOnShutdown ==
    host = "down" => \A p \in DOMAIN procs : procs[p] # "running"

\* C27: the host waits for the handshake of a subprocess no longer than the
\* start timeout of one second, and every launch ends, with a connected
\* stub or with an error.
C27_LaunchTerminates ==
    /\ [](launch.phase = "waiting" => launch.clock <= StartTimeout)
    /\ (launch.phase = "waiting")
          ~> (launch.phase = "idle" /\ launch.outcome \in {"connected", "error"})

\* a launch ended by the timeout: an error, the subprocess killed
C27_Witness ==
    /\ launch.phase = "idle"
    /\ launch.handshake = "timeout"
    /\ launch.clock = StartTimeout
    /\ launch.outcome = "error"
    /\ ~launch.err.isNil
    /\ procs[launch.pid] = "killed"

(***************************************************************************)
(* Properties of the stderr relay (checked under SpecLogger).              *)
(***************************************************************************)
\* the lines of a text that are not blank, trimmed
NonBlankLines(text) == PrintLines(strings_Split(text, NewLine), 1)

\* C28: however the stream is cut into calls of Write, the host log holds
\* the non-blank lines of the stream, trimmed, one entry per line, in the
\* order of the stream.
C28_LogIsLinesOfStream ==
    written = Len(stream) => hostLog = NonBlankLines(stream)

(***************************************************************************)
(* Properties of the influxdb_v2 client (checked under SpecOutput).        *)
(***************************************************************************)
\* the answer to the k-th request of the last Write
Answer(k) == olast.answers[k]

Accepted(k) == Answer(k) \in {204, 200, 201, 202, 206, 207, 208}

TooLarge == {k \in DOMAIN olast.sent : Answer(k) = 413}

\* the first request of the last Write that was answered with 413
FirstTooLarge == CHOOSE k \in TooLarge : \A j \in TooLarge : k <= j

\* the requests of the last Write behind the first one answered with 413
AfterTooLarge == SubSeq(olast.sent, FirstTooLarge + 1, Len(olast.sent))

\* the two halves of the metrics handed to Write, those that are not empty
Halves ==
    SelectSeq(<<SubSeq(ometrics, 1, Len(ometrics) \div 2),
                SubSeq(ometrics, Len(ometrics) \div 2 + 1, Len(ometrics))>>,
              LAMBDA half : half # <<>>)

SentIds(k) == {olast.sent[k].metrics[i].id : i \in DOMAIN olast.sent[k].metrics}

\* C30: with a bucket tag configured every request goes to the bucket its
\* metrics name in their bucket tag, to the default bucket for the metrics
\* without the tag, and no metric the server has accepted is sent again in
\* the same Write.
C30_RequestsGoToTaggedBucket ==
    (ocount > 0 /\ ocfg.BucketTag # "") =>
       /\ \A k \in DOMAIN olast.sent :
             \A i \in DOMAIN olast.sent[k].metrics :
                olast.sent[k].bucket = BucketOf(ocfg, olast.sent[k].metrics[i])
       /\ \A j, k \in DOMAIN olast.sent :
             (j < k /\ Accepted(j)) => SentIds(j) \cap SentIds(k) = {}

\* the positions of the metrics in the requests of the last Write before
\* the last one
SentBefore == UNION {SentIds(k) : k \in 1..(Len(olast.sent) - 1)}

Elements(seq) == {seq[i] : i \in DOMAIN seq}

\* C32: when Write returns a WriteError, the indices of MetricsSuccess are
\* the positions, in the slice handed to Write, of the metrics of the batches
\* written before the failing one, and the indices of MetricsFatal are
\* positions of metrics of the batch that failed, also with the batches
\* made by bucket tag.
C32_IndicesArePositions ==
    (ocount > 0 /\ olast.err.kind = "write") =>
       /\ Elements(olast.err.success) = SentBefore
       /\ olast.sent # <<>> => Elements(olast.err.fatal) \subseteq SentIds(Len(olast.sent))

(***************************************************************************)
(* Properties of the back-off of the client (checked under SpecRetry).     *)
(***************************************************************************)
\* the last Write was asked to retry
AskedToRetry == olast.answers # <<>> /\ olast.answers[Len(olast.answers)] \in RetryStatuses

\* the back-off for a retry count, in milliseconds
Backoff(retryCount) == Smaller((retryCount * retryCount * 1000) \div 40, 60 * 1000)

Wait == oretry.retryTime - olast.at

\* C34: the wait is the larger of the back-off, retryCount^2/40 seconds and
\* at most 60 seconds, and the Retry-After header, at most 600 seconds and
\* 10 seconds for a header that is no number; with any header it is at most
\* 600 seconds.
C34_WaitIsLargerOfBackoffAndHeader ==
    (ocount > 0 /\ AskedToRetry) =>
       LET header == oserver.retryAfter
           backoff == Backoff(oretry.retryCount)
       IN  /\ Wait >= backoff
           /\ Wait <= 600 * 1000
           /\ header.kind = "absent" => Wait = backoff
           /\ header.kind = "invalid" => Wait = Larger(backoff, 10 * 1000)
           /\ header.kind = "number" => Wait = Larger(backoff, Smaller(header.ms, 600 * 1000))

(***************************************************************************)
(* Properties of the influxdb_v2 plugin (checked under SpecInflux).        *)
(***************************************************************************)
Succeeded(entry) == entry.err.kind = "nil"

\* C31: Write tries the clients one after another in the order of the
\* permutation, stops at the first client whose Write succeeds, so that no
\* later client is sent anything, and then returns nil; it returns an error
\* exactly if every client failed, also when there is no client.
C31_FirstSuccessStops ==
    icount > 0 =>
       LET tried == ilast.tried
           n == Len(iservers)
       IN  /\ Len(tried) <= n
           /\ \A k \in DOMAIN tried : tried[k].client = ilast.perm[k]
           /\ \A k \in DOMAIN tried : k < Len(tried) => ~Succeeded(tried[k])
           /\ ~ilast.failed <=> (tried # <<>> /\ Succeeded(tried[Len(tried)]))
           /\ ilast.failed <=> (Len(tried) = n /\ \A k \in DOMAIN tried : ~Succeeded(tried[k]))

\* the first client tried fails, the second succeeds
C31_Witness ==
    /\ icount > 0
    /\ Len(iservers) = 2
    /\ Len(ilast.tried) = 2
    /\ ~Succeeded(ilast.tried[1])
    /\ ilast.tried[1].sent # <<>>
    /\ Succeeded(ilast.tried[2])
    /\ ~ilast.failed

(***************************************************************************)
(* Properties of the rate limiter (checked under SpecLimiter).             *)
(***************************************************************************)
\* C35: as long as the limiter is used as writeBatch uses it, what was
\* accepted within one period never exceeds the limit, and at a time one
\* period or more after the period start the full limit is available.
C35_PeriodSumWithinLimit ==
    (ledger.mode = "batch" /\ limiter.limit > 0) =>
       /\ \A k \in DOMAIN ledger.sums : ledger.sums[k] <= limiter.limit
       /\ \A t \in 1..(MaxTime + MaxPeriod) :
             (limiter.periodStart # 0 /\ t - limiter.periodStart >= limiter.period) =>
                RateLimiter_Remaining(limiter, t) = limiter.limit

\* the limit was used up in one period and is used again in a later one
C35_Witness ==
    /\ ledger.mode = "batch"
    /\ limiter.limit > 1
    /\ \E j, k \in DOMAIN ledger.sums :
          j < k /\ ledger.sums[j] = limiter.limit /\ ledger.sums[k] = limiter.limit
    /\ limiter.periodStart > ledger.first
    /\ limiter.remaining = 0

\* C36: with a limit, remaining stays between 0 and the limit whatever is
\* accepted and undone, and an Undo outside the current period changes
\* nothing; without a limit Remaining is unlimited and no call changes the
\* limiter.
C36_RemainingWithinBounds ==
    /\ limiter.limit > 0 =>
          /\ 0 <= limiter.remaining
          /\ limiter.remaining <= limiter.limit
          /\ (llast.op = "Undo" /\ llast.outside) => ~llast.changed
    /\ limiter.limit = 0 =>
          /\ \A t \in 0..MaxTime : RateLimiter_Remaining(limiter, t) = math_MaxInt64
          /\ ~llast.changed

\* an Undo within the period gives back more than was used: remaining is
\* the limit again
C36_Witness ==
    /\ limiter.limit > 0
    /\ llast.op = "Undo"
    /\ ~llast.outside
    /\ llast.changed
    /\ llast.was + llast.used > limiter.limit
    /\ limiter.remaining = limiter.limit

(***************************************************************************)
(* Further properties of discovery (checked under SpecDiscover).           *)
(***************************************************************************)
\* C37: whatever the checksum file holds, readChecksums returns a mapping
\* or an error and does not crash, also for a line that ends with its first
\* space.
C37_ReadChecksumsReturns ==
    ReadDone =>
       \/ dread.kind = "ok" /\ dread.err.isNil
       \/ dread.kind = "error" /\ ~dread.err.isNil /\ dread.isNil

\* where an entry of a category directory lies, from the root on
EntryPath(category, e) ==
    IF e.in = "" THEN <<category, e.name>> ELSE <<category, e.in, e.name>>

\* C38: every name registered for the inputs category is the name of an
\* executable at the path NewInputWrapper launches for it, also when the
\* walk found the executable in a subdirectory.
C38_RegisteredNameIsLaunchPath ==
    (DiscoverDone /\ dres.kind = "ok") =>
       \A k \in DOMAIN dres.register["inputs"] :
          \E i \in DOMAIN droot["inputs"].entries :
             LET e == droot["inputs"].entries[i]
             IN  /\ e.lstat
                 /\ RegularExecutable(e)
                 /\ EntryPath("inputs", e) = PluginPath(dres.register["inputs"][k])

(***************************************************************************)
(* Further properties of the bridge (checked under Spec).                  *)
(***************************************************************************)
NoLineBreak(text) == \A i \in DOMAIN text : text[i] # NewLine

\* C39: a Configure with a text that has no line break, the empty text
\* included, leaves the settings of the plugin as they are and answers
\* with success, not with an error message.
C39_HeaderOnlyConfigure ==
    NoLineBreak(wconfig) =>
       /\ applied = {}
       /\ \A i \in DOMAIN last.served :
             last.served[i].rpc = "Configure" =>
                /\ last.served[i].err.isNil
                /\ ~last.served[i].rpcErr
                /\ ~GetIsError(last.served[i].Error)
       /\ \A before \in SUBSET PluginSettings :
             server_Configure(wconfig, before, {}).applied = before

\* Wrapper.Init with the empty text: Configure and Init were served, Init
\* succeeded
C39_Witness ==
    /\ wconfig = <<>>
    /\ last.op = "Init"
    /\ Len(last.served) = 2
    /\ last.served[1].rpc = "Configure"
    /\ last.ret.isNil
    /\ applied = {}


(***************************************************************************)
(* Properties of concurrent Gather calls (checked under SpecConcurrent).   *)
(***************************************************************************)
\* the metrics caller c handed to the accumulator, in the accumulator's
\* order
Own(c) ==
    LET at == SelectSeq([k \in 1..Len(gowner) |-> k], LAMBDA k : gowner[k] = c)
    IN  [j \in 1..Len(at) |-> gsink[at[j]]]

\* C40: with two callers in Gather on the same Wrapper at once, each call
\* hands to the accumulator the metrics of its own response and no others,
\* each once and in the order of the response; a call that returned nil
\* has handed over all of them, a call that returned an error none.
C40_EachCallForwardsItsOwnResponse ==
    \A c \in Callers :
        /\ Len(Own(c)) <= Len(gresp[c].Metric)
        /\ \A k \in 1..Len(Own(c)) : Own(c)[k] \in FromMetricMessage(gresp[c].Metric[k])
        /\ Len(Own(c)) > 0 => gresp[c].replied /\ ~gresp[c].failed
        /\ gframe[c].pc = "done" /\ gframe[c].ret.isNil => Len(Own(c)) = Len(gresp[c].Metric)
        /\ gframe[c].pc = "done" /\ ~gframe[c].ret.isNil => Own(c) = <<>>

\* both calls returned nil, their responses differ and the accumulator
\* took their metrics in turns
C40_Witness ==
    /\ \A c \in Callers : gframe[c].pc = "done" /\ gframe[c].ret.isNil
    /\ gresp["a"].Metric # gresp["b"].Metric
    /\ gowner = <<"a", "b", "a", "b">>

====
